---- MODULE Spec2Model ----
(***************************************************************************)
(* PRPal review orchestration engine: the review store, the PR store, the  *)
(* OpenCode executor and the review route handlers, as state machines.     *)
(***************************************************************************)
EXTENDS Integers, Sequences, FiniteSets, TLC

\* ------------------------------------------------------------------ bounds
\* number of review runs (handleStartReview requests that reach executeReview)
MaxRuns == 2
\* longest snapshot handed to syncPRs
MaxSnapshot == 2
\* number of direct store calls explored per behaviour of the store specs
MaxOps == 3

\* the pieces of an output of the tool
MaxOutput == 3

\* the pieces of a verdict text
MaxVerdict == 2

\* the lines of a patch after its first hunk header
MaxPatch == 3

\* the issues of a review
MaxIssues == 2

\* the line numbers asked for
MaxLine == 4
MaxExtract == 5
MaxError == 2
MaxRetries == 2

\* ------------------------------------------------------------- vocabulary
PRIds == {"pr1", "pr2", "pr3"}
\* the PRs open at the first poll of the review behaviours
OpenPRs == {"pr1", "pr2"}
\* the PR the clients request reviews of (cancel requests name any open PR)
RequestedPRs == {"pr1"}
\* the clients of the local API; each awaits the reply to its review request
\* before it sends the next one, so at most two runs are in flight
Clients == {"c1", "c2"}

\* an optional number that is undefined (dates, result ids, progress)
NoValue == 0
\* an optional string that is undefined
Undefined == "undefined"

Stages == {"starting", "fetching_diff", "analyzing", "generating", "parsing"}
ReviewStatuses == {"pending", "in_progress", "completed", "failed", "cancelled"}
PRStatuses == {"new", "seen", "reviewing", "reviewed", "dismissed"}

\* error.message of the errors a review run can end with
MsgCancelled == "Review cancelled"
MsgTimeout == "Review timed out"
MsgExit == "OpenCode exited with code 1"
MsgNotInstalled == "OpenCode not installed"
MsgSpawn == "spawn opencode ENOENT"
MsgFetch == "GitHub request failed"

\* --------------------------------------------------------------- JS Map
MapSet(m, k, v) == [x \in (DOMAIN m) \cup {k} |-> IF x = k THEN v ELSE m[x]]
MapDelete(m, k) == [x \in (DOMAIN m) \ {k} |-> m[x]]
EmptyMap == [x \in {} |-> 0]

\* ---------------------------------------------------------- review store
STAGE_PROGRESS ==
  [starting |-> 10, fetching_diff |-> 25, analyzing |-> 50,
   generating |-> 75, parsing |-> 90]

\* a ReviewState none of whose optional fields is set ({...undefined})
NoReview ==
  [status |-> Undefined, stage |-> Undefined, progress |-> NoValue,
   result |-> NoValue, error |-> Undefined, startedAt |-> NoValue,
   completedAt |-> NoValue, inlineComments |-> <<>>]

Existing(store, prId) == IF prId \in DOMAIN store THEN store[prId] ELSE NoReview

setReviewPending(store, prId) ==
  MapSet(store, prId, [NoReview EXCEPT !.status = "pending"])

\* a variant that restarts the clock
setReviewInProgressRestart(store, prId, stage, t) ==
  MapSet(store, prId,
    [Existing(store, prId) EXCEPT
       !.status = "in_progress",
       !.stage = IF stage = Undefined THEN "starting" ELSE stage,
       !.progress = IF stage = Undefined THEN 10 ELSE STAGE_PROGRESS[stage],
       !.startedAt = t])

\* stage = Undefined stands for the omitted optional argument
setReviewInProgress(store, prId, stage, t) ==
  LET existing == Existing(store, prId) IN
  MapSet(store, prId,
    [existing EXCEPT
       !.status = "in_progress",
       !.stage = IF stage = Undefined THEN "starting" ELSE stage,
       !.progress = IF stage = Undefined THEN 10 ELSE STAGE_PROGRESS[stage],
       !.startedAt = IF existing.startedAt # NoValue THEN existing.startedAt ELSE t])

updateReviewStage(store, prId, stage) ==
  IF prId \notin DOMAIN store \/ store[prId].status # "in_progress"
  THEN store
  ELSE MapSet(store, prId,
         [store[prId] EXCEPT !.stage = stage, !.progress = STAGE_PROGRESS[stage]])

setReviewCompleted(store, prId, result, t) ==
  MapSet(store, prId,
    [NoReview EXCEPT !.status = "completed", !.progress = 100,
                     !.result = result, !.completedAt = t])

setReviewFailed(store, prId, error, t) ==
  MapSet(store, prId,
    [Existing(store, prId) EXCEPT
       !.status = "failed", !.error = error, !.completedAt = t])

\* the boolean that setReviewCancelled returns
setReviewCancelledRet(store, prId) ==
  prId \in DOMAIN store /\ store[prId].status = "in_progress"

\* a variant that skips the status guard
setReviewCancelledUnguarded(store, prId, t) ==
  IF prId \notin DOMAIN store
  THEN store
  ELSE MapSet(store, prId,
         [store[prId] EXCEPT !.status = "cancelled", !.completedAt = t])

setReviewCancelled(store, prId, t) ==
  IF ~setReviewCancelledRet(store, prId)
  THEN store
  ELSE MapSet(store, prId,
         [store[prId] EXCEPT !.status = "cancelled", !.completedAt = t])

\* comments is the list itself; the field holds <<list>> once it is set
setInlineComments(store, prId, comments) ==
  IF prId \notin DOMAIN store
  THEN store
  ELSE MapSet(store, prId, [store[prId] EXCEPT !.inlineComments = <<comments>>])

\* -------------------------------------------------------------- PR store
\* prStates is a JS Map, which iterates in insertion order: a sequence of
\* PRState records keyed by pr.id (set on a present key keeps its position,
\* set on an absent key appends, delete removes).
PRKeys(store) == {store[i].pr.id : i \in DOMAIN store}
PRKeySeq(store) == [i \in DOMAIN store |-> store[i].pr.id]
PRHas(store, prId) == prId \in PRKeys(store)
PRGet(store, prId) == store[CHOOSE i \in DOMAIN store : store[i].pr.id = prId]
PRSet(store, prId, state) ==
  IF PRHas(store, prId)
  THEN [i \in DOMAIN store |-> IF store[i].pr.id = prId THEN state ELSE store[i]]
  ELSE Append(store, state)
PRDelete(store, prId) == SelectSeq(store, LAMBDA st : st.pr.id # prId)

\* a PRState; pr is the fetched PullRequest (its id and a content version)
NewPRState(pr, needsMyReview) ==
  [pr |-> pr, status |-> "new", needsMyReview |-> needsMyReview,
   seenAt |-> NoValue, reviewStartedAt |-> NoValue, reviewCompletedAt |-> NoValue]

\* a variant that stamps the timestamp of the status on every call
updatePRStatusRestamp(store, prId, status, t) ==
  IF ~PRHas(store, prId)
  THEN store
  ELSE LET existing == PRGet(store, prId) IN
       PRSet(store, prId,
         [existing EXCEPT
            !.status = status,
            !.seenAt = IF status = "seen" THEN t ELSE existing.seenAt,
            !.reviewStartedAt =
               IF status = "reviewing" THEN t ELSE existing.reviewStartedAt,
            !.reviewCompletedAt =
               IF status = "reviewed" THEN t ELSE existing.reviewCompletedAt])

updatePRStatus(store, prId, status, t) ==
  IF ~PRHas(store, prId)
  THEN store
  ELSE LET existing == PRGet(store, prId) IN
       PRSet(store, prId,
         [existing EXCEPT
            !.status = status,
            !.seenAt = IF status = "seen" /\ existing.seenAt = NoValue
                       THEN t ELSE existing.seenAt,
            !.reviewStartedAt =
               IF status = "reviewing" /\ existing.reviewStartedAt = NoValue
               THEN t ELSE existing.reviewStartedAt,
            !.reviewCompletedAt =
               IF status = "reviewed" /\ existing.reviewCompletedAt = NoValue
               THEN t ELSE existing.reviewCompletedAt])

getNewPRs(store) == SelectSeq(store, LAMBDA state : state.status = "new")

\* the (prId, state) pairs updatePRStatus hands to a change listener: setPRState
\* notifies once, and the early return for an unknown prId not at all
updatePRStatusNotifies(store, prId, status, t) ==
  IF ~PRHas(store, prId)
  THEN <<>>
  ELSE <<[prId |-> prId, state |-> PRGet(updatePRStatus(store, prId, status, t), prId)]>>

\* a variant that starts the PRState afresh
updateExistingPRReset(store, existing, pr, needsMyReview) ==
  PRSet(store, pr.id, NewPRState(pr, needsMyReview))

updateExistingPR(store, existing, pr, needsMyReview) ==
  PRSet(store, pr.id, [existing EXCEPT !.pr = pr, !.needsMyReview = needsMyReview])

addPR(store, pr, needsMyReview) ==
  IF PRHas(store, pr.id)
  THEN updateExistingPR(store, PRGet(store, pr.id), pr, needsMyReview)
  ELSE PRSet(store, pr.id, NewPRState(pr, needsMyReview))

\* a variant that deletes nothing
removePRKeeps(store, prId) == store

removePR(store, prId) == PRDelete(store, prId)

\* the first loop of syncPRs over prs[i..]; acc = [states, added]
RECURSIVE SyncAddLoop(_, _, _, _, _)
SyncAddLoop(acc, prs, i, existingIds, myReviewPRIds) ==
  IF i > Len(prs) THEN acc
  ELSE LET pr == prs[i]
           needsMyReview == pr.id \in myReviewPRIds
       IN IF pr.id \notin existingIds
          THEN SyncAddLoop([states |-> addPR(acc.states, pr, needsMyReview),
                            added |-> Append(acc.added, pr.id)],
                           prs, i + 1, existingIds, myReviewPRIds)
          ELSE SyncAddLoop([states |-> updateExistingPR(acc.states,
                                         PRGet(acc.states, pr.id), pr, needsMyReview),
                            added |-> acc.added],
                           prs, i + 1, existingIds, myReviewPRIds)

\* the second loop of syncPRs over existingIds[i..] (keys in Map order)
RECURSIVE SyncRemoveLoop(_, _, _, _)
SyncRemoveLoop(acc, existingSeq, i, newIds) ==
  IF i > Len(existingSeq) THEN acc
  ELSE IF existingSeq[i] \notin newIds
       THEN SyncRemoveLoop([states |-> removePR(acc.states, existingSeq[i]),
                            removed |-> Append(acc.removed, existingSeq[i])],
                           existingSeq, i + 1, newIds)
       ELSE SyncRemoveLoop(acc, existingSeq, i + 1, newIds)

\* a variant that empties the store and adds the snapshot anew
syncPRsRebuild(store, prs, myReviewPRIds) ==
  LET afterAdd == SyncAddLoop([states |-> <<>>, added |-> <<>>], prs, 1,
                              {}, myReviewPRIds)
  IN [states |-> afterAdd.states, added |-> afterAdd.added,
      removed |-> PRKeySeq(store)]

\* syncPRs: the store after the call and the returned {added, removed}
syncPRs(store, prs, myReviewPRIds) ==
  LET newIds == {prs[i].id : i \in DOMAIN prs}
      existingSeq == PRKeySeq(store)
      existingIds == PRKeys(store)
      afterAdd == SyncAddLoop([states |-> store, added |-> <<>>], prs, 1,
                              existingIds, myReviewPRIds)
      afterRemove == SyncRemoveLoop([states |-> afterAdd.states, removed |-> <<>>],
                                    existingSeq, 1, newIds)
  IN [states |-> afterRemove.states, added |-> afterAdd.added,
      removed |-> afterRemove.removed]

\* -------------------------------------------------------------- JS values
\* A text is a sequence of pieces, each standing for a fixed run of
\* characters; no keyword searched for below occurs inside another piece or
\* across the border of two pieces.  A value is what JSON.parse can build,
\* or undefined; an operation that throws yields TypeError or SyntaxError.
JSUndefined == [t |-> "undefined"]

JSNull == [t |-> "null"]

Num(n) == [t |-> "number", n |-> n]

Str(s) == [t |-> "string", s |-> s]

Arr(a) == [t |-> "array", a |-> a]

Obj(f) == [t |-> "object", f |-> f]

TypeError == [t |-> "TypeError"]

SyntaxError == [t |-> "SyntaxError"]

Throws(v) == v.t \in {"TypeError", "SyntaxError"}

\* value.key
Get(value, key) ==
  IF value.t \in {"undefined", "null"} THEN TypeError
  ELSE IF value.t = "object" /\ key \in DOMAIN value.f THEN value.f[key]
  ELSE JSUndefined

\* value?.key
GetOptional(value, key) ==
  IF value.t \in {"undefined", "null"} THEN JSUndefined ELSE Get(value, key)

Truthy(value) ==
  CASE value.t \in {"undefined", "null"} -> FALSE
    [] value.t = "number" -> value.n # 0
    [] value.t = "string" -> value.s # <<>>
    [] OTHER -> TRUE

RECURSIVE String(_)
RECURSIVE JoinFrom(_, _, _)
\* the elements of an array from the i-th on, converted and joined by sep;
\* Array.prototype.join converts null and undefined to the empty string
JoinFrom(a, i, sep) ==
  IF i > Len(a) THEN Str(<<>>)
  ELSE LET head == IF a[i].t \in {"undefined", "null"} THEN Str(<<>>)
                   ELSE String(a[i])
           rest == JoinFrom(a, i + 1, sep)
       IN IF Throws(head) THEN head
          ELSE IF Throws(rest) THEN rest
          ELSE IF i = Len(a) THEN head
          ELSE Str(head.s \o <<sep>> \o rest.s)

\* String(value): an object is converted by the toString it inherits unless
\* it has a property of that name, which, coming from JSON, is not callable;
\* valueOf then yields no primitive either and the conversion throws
String(value) ==
  CASE value.t = "undefined" -> Str(<<"undefined">>)
    [] value.t = "null" -> Str(<<"null">>)
    [] value.t = "number" -> Str(<<"num">>)
    [] value.t = "string" -> value
    [] value.t = "array" -> JoinFrom(value.a, 1, ",")
    [] value.t = "object" ->
         IF "toString" \in DOMAIN value.f THEN TypeError
         ELSE Str(<<"[object Object]">>)

\* String.prototype.toLowerCase, piece by piece
LowerPiece(p) ==
  CASE p = "APPROVE" -> "approve"
    [] p = "REQUEST" -> "request"
    [] p = "CHANGE" -> "change"
    [] p = "LGTM" -> "lgtm"
    [] p = "Unauthorized" -> "unauthorized"
    [] OTHER -> p

toLowerCase(s) == [i \in 1..Len(s) |-> LowerPiece(s[i])]

\* String.prototype.includes
includes(s, word) == \E i \in 1..Len(s) : s[i] = word

\* -------------------------------------------------------- response parser
normalizeVerdict(value) ==
  LET converted == String(value)
      str == IF Throws(converted) THEN <<>> ELSE toLowerCase(converted.s)
  IN IF Throws(converted) THEN "TypeError"
     ELSE IF includes(str, "approve") THEN "approve"
     ELSE IF includes(str, "request") \/ includes(str, "change")
       THEN "request_changes"
     ELSE "comment"

normalizeSeverity(value) ==
  LET converted == String(value)
      str == IF Throws(converted) THEN <<>> ELSE toLowerCase(converted.s)
  IN IF Throws(converted) THEN "TypeError"
     ELSE IF includes(str, "critical") \/ includes(str, "error") THEN "critical"
     ELSE IF includes(str, "warn") THEN "warning"
     ELSE "info"

isObject(val) == val.t = "object"

getString(val) == IF val.t = "string" THEN val.s ELSE <<>>

getOptionalString(val) == IF val.t = "string" THEN val ELSE JSUndefined

getOptionalNumber(val) == IF val.t = "number" THEN val ELSE JSUndefined

\* a || b on texts
OrElse(s, default) == IF s # <<>> THEN s ELSE default

\* assigned only when truthy
IfTruthy(val) == IF Truthy(val) THEN val ELSE JSUndefined

normalizeIssues(value) ==
  IF value.t # "array" THEN <<>>
  ELSE LET objs == SelectSeq(value.a, isObject)
       IN [i \in 1..Len(objs) |->
            [severity |-> normalizeSeverity(Get(objs[i], "severity")),
             message |-> OrElse(getString(Get(objs[i], "message")),
                                <<"Issue detected">>),
             file |-> IfTruthy(getOptionalString(Get(objs[i], "file"))),
             line |-> IfTruthy(getOptionalNumber(Get(objs[i], "line"))),
             endLine |-> IfTruthy(getOptionalNumber(Get(objs[i], "endLine"))),
             suggestion |->
               IfTruthy(getOptionalString(Get(objs[i], "suggestion")))]]

\* the message of a suggestion: a text, or TypeError
SuggestionMessage(item) ==
  IF ~isObject(item) \/ getString(Get(item, "message")) = <<>>
  THEN String(item)
  ELSE Str(getString(Get(item, "message")))

normalizeSuggestions(value) ==
  IF value.t # "array" THEN <<>>
  ELSE [i \in 1..Len(value.a) |->
         [file |-> IF isObject(value.a[i])
                   THEN getOptionalString(Get(value.a[i], "file"))
                   ELSE JSUndefined,
          line |-> IF isObject(value.a[i])
                   THEN getOptionalNumber(Get(value.a[i], "line"))
                   ELSE JSUndefined,
          message |-> SuggestionMessage(value.a[i]),
          code |-> IF isObject(value.a[i])
                   THEN getOptionalString(Get(value.a[i], "code"))
                   ELSE JSUndefined]]

normalizePositives(value) ==
  IF value.t # "array" THEN JSUndefined
  ELSE Arr([i \in 1..Len(value.a) |-> String(value.a[i])])

\* the pieces the output of the tool is made of:
\*   nl       a line break              fence   ```
\*   jfence   ```json                   prose   not valid
\*   long     600 characters of prose   lbrace  {        rbrace  }
\*   obj      {"summary":"LGTM","verdict":"APPROVE"}
\*   objBad   {"summary":"LGTM","verdict":{"toString":1}}
\*   num      7                         null    null
\*   evProse  {"type":"text","part":{"text":"not valid"}}
\*   evObj    {"type":"text","part":{"text":"{\"summary\": ... }"}}
\*   evBad    {"type":"text","part":{"text":{"toString":1}}}
\*   evStep   {"type":"step_start"}
OutputPieces ==
  {"nl", "fence", "jfence", "prose", "long", "lbrace", "rbrace", "obj",
   "objBad", "num", "null", "evProse", "evObj", "evBad", "evStep"}

\* the number of characters of a piece
Width(p) ==
  CASE p \in {"nl", "lbrace", "rbrace", "num"} -> 1
    [] p = "fence" -> 3
    [] p \in {"null", "json"} -> 4
    [] p = "jfence" -> 7
    [] p = "prose" -> 9
    [] p = "long" -> 600
    [] p = "evStep" -> 21
    [] p = "obj" -> 38
    [] p \in {"objBad", "evBad"} -> 43
    [] p = "429" -> 3
    [] p = "oops" -> 4
    [] p = "model" -> 5
    [] p \in {"invalid", "context", "timeout"} -> 7
    [] p = "Unauthorized" -> 12
    [] OTHER -> 45

TextEvent(text) == Obj([type |-> Str(<<"text">>), part |-> Obj([text |-> text])])

\* the value a piece that is one JSON text parses to
PieceValue(p) ==
  CASE p = "obj" -> Obj([summary |-> Str(<<"LGTM">>), verdict |-> Str(<<"APPROVE">>)])
    [] p = "objBad" -> Obj([summary |-> Str(<<"LGTM">>),
                            verdict |-> Obj([toString |-> Num(1)])])
    [] p = "num" -> Num(7)
    [] p = "null" -> JSNull
    [] p = "evProse" -> TextEvent(Str(<<"prose">>))
    [] p = "evObj" -> TextEvent(Str(<<"obj">>))
    [] p = "evBad" -> TextEvent(Obj([toString |-> Num(1)]))
    [] p = "evStep" -> Obj([type |-> Str(<<"step_start">>)])

JSONPieces == {"obj", "objBad", "num", "null", "evProse", "evObj", "evBad", "evStep"}

\* pieces that end with } and pieces that hold a {
ClosingPieces == {"rbrace", "obj", "objBad", "evProse", "evObj", "evBad", "evStep"}

ObjectPieces == {"obj", "objBad", "evProse", "evObj", "evBad", "evStep"}

\* JSON.parse: white space around and between tokens is skipped
JSONParse(text) ==
  LET tokens == SelectSeq(text, LAMBDA p : p # "nl")
  IN IF Len(tokens) = 1 /\ tokens[1] \in JSONPieces THEN PieceValue(tokens[1])
     ELSE IF tokens = <<"lbrace", "rbrace">> THEN Obj(<<>>)
     ELSE SyntaxError

\* JSON.stringify of a value that is not an object
JSONStringify(data) ==
  CASE data.t = "number" -> <<"num">>
    [] data.t = "string" -> <<"quote">> \o data.s \o <<"quote">>
    [] data.t = "null" -> <<"null">>
    [] OTHER -> <<"array literal">>

\* the characters of all pieces of s
Chars(s) ==
  LET sum[i \in 0..Len(s)] == IF i = 0 THEN 0 ELSE sum[i - 1] + Width(s[i])
  IN sum[Len(s)]

PreviewChars == 500

\* s.slice(0, n): the pieces that fit whole, and how much of the next one
slice(s, n) ==
  LET fit == {k \in 0..Len(s) : Chars(SubSeq(s, 1, k)) <= n}
      whole == CHOOSE k \in fit : \A j \in fit : j <= k
      used == Chars(SubSeq(s, 1, whole))
  IN [whole |-> SubSeq(s, 1, whole),
      cut |-> IF whole < Len(s) /\ used < n
              THEN <<s[whole + 1], n - used>> ELSE <<>>]

\* output.split('\n').filter(line => line.trim())
RECURSIVE SplitLines(_, _, _)
SplitLines(text, i, line) ==
  IF i > Len(text) THEN IF line = <<>> THEN <<>> ELSE <<line>>
  ELSE IF text[i] = "nl"
    THEN (IF line = <<>> THEN <<>> ELSE <<line>>) \o SplitLines(text, i + 1, <<>>)
  ELSE SplitLines(text, i + 1, Append(line, text[i]))

\* the text part a line contributes: <<>> when the line is no JSON, when
\* reading event.type throws, and when the event carries no text
EventText(line) ==
  LET event == JSONParse(line)
      type == IF Throws(event) THEN event ELSE Get(event, "type")
      text == IF Throws(type) THEN type
              ELSE GetOptional(Get(event, "part"), "text")
  IN IF ~Throws(type) /\ type = Str(<<"text">>) /\ Truthy(text)
     THEN <<text>> ELSE <<>>

RECURSIVE TextParts(_, _)
TextParts(lines, i) ==
  IF i > Len(lines) THEN <<>> ELSE EventText(lines[i]) \o TextParts(lines, i + 1)

\* a text, null, or the TypeError of textParts.join
extractTextFromEvents(output) ==
  LET textParts == TextParts(SplitLines(output, 1, <<>>), 1)
  IN IF Len(textParts) > 0 THEN JoinFrom(textParts, 1, "nl") ELSE JSNull

NoCandidate == [found |-> FALSE, text |-> <<>>]

Candidate(text) == [found |-> TRUE, text |-> text]

FencePieces == {"fence", "jfence"}

\* the least index from i on whose piece is in the set, or 0
FirstIn(text, i, pieces) ==
  LET at == {k \in i..Len(text) : text[k] \in pieces}
  IN IF at = {} THEN 0 ELSE CHOOSE k \in at : \A j \in at : k <= j

\* /```json\s*([\s\S]*?)```/
JsonBlock(text) ==
  LET open == FirstIn(text, 1, {"jfence"})
      close == IF open = 0 THEN 0 ELSE FirstIn(text, open + 1, FencePieces)
  IN IF close = 0 THEN NoCandidate
     ELSE Candidate(SubSeq(text, open + 1, close - 1))

\* /```\s*([\s\S]*?)```/: a block tagged json starts with the tag
CodeBlock(text) ==
  LET open == FirstIn(text, 1, FencePieces)
      close == IF open = 0 THEN 0 ELSE FirstIn(text, open + 1, FencePieces)
  IN IF close = 0 THEN NoCandidate
     ELSE Candidate((IF text[open] = "jfence" THEN <<"json">> ELSE <<>>)
                    \o SubSeq(text, open + 1, close - 1))

\* (?=\s*$|\s*```|$) after the piece at k
BeforeEndOrFence(text, k) ==
  LET next == {j \in (k + 1)..Len(text) : text[j] # "nl"}
  IN next = {} \/ text[CHOOSE j \in next : \A h \in next : j <= h] \in FencePieces

\* /\{\s*"summary"\s*:\s*"[\s\S]*?\}(?=\s*$|\s*```|$)/
SummaryMatch(text) ==
  LET start == FirstIn(text, 1, {"obj", "objBad"})
      ends == IF start = 0 THEN {}
              ELSE {k \in start..Len(text) :
                      text[k] \in ClosingPieces /\ BeforeEndOrFence(text, k)}
  IN IF ends = {} THEN NoCandidate
     ELSE Candidate(SubSeq(text, start, CHOOSE k \in ends : \A j \in ends : k <= j))

\* the depth after the pieces start..k, start being the first piece with a {
BraceDepth(text, start, k) ==
  Cardinality({j \in start..k : text[j] = "lbrace"})
    - Cardinality({j \in start..k : text[j] = "rbrace"})

extractBalancedJson(text) ==
  LET startIdx == FirstIn(text, 1, ObjectPieces \cup {"lbrace"})
      ends == IF startIdx = 0 THEN {}
              ELSE {k \in startIdx..Len(text) : BraceDepth(text, startIdx, k) = 0}
  IN IF ends = {} THEN NoCandidate
     ELSE Candidate(SubSeq(text, startIdx, CHOOSE k \in ends : \A j \in ends : k <= j))

Whole(text) == Candidate(text)

\* a variant that looks for a brace-balanced object before the summary key
StrategiesBalancedFirst(text) ==
  <<JsonBlock(text), CodeBlock(text), Whole(text), extractBalancedJson(text),
    SummaryMatch(text)>>

\* the candidates of the five strategies, in the order they are tried
Strategies(text) ==
  <<JsonBlock(text), CodeBlock(text), Whole(text), SummaryMatch(text),
    extractBalancedJson(text)>>

Parses(candidate) == candidate.found /\ ~Throws(JSONParse(candidate.text))

\* the value of the first candidate that parses, or null
extractJson(output) ==
  LET tried == Strategies(output)
      good == {k \in 1..Len(tried) : Parses(tried[k])}
  IN IF good = {} THEN JSNull
     ELSE JSONParse(tried[CHOOSE k \in good : \A j \in good : k <= j].text)

createFallbackReview(rawOutput) ==
  [t |-> "review", summary |-> <<"Review completed. See raw output for details.">>,
   verdict |-> "comment", issues |-> <<>>,
   suggestions |-> <<[message |-> slice(rawOutput, PreviewChars)]>>]

\* whether a field of the review could not be built
Broken(review) ==
  \/ review.verdict = "TypeError"
  \/ \E i \in 1..Len(review.issues) : review.issues[i].severity = "TypeError"
  \/ \E i \in 1..Len(review.suggestions) : Throws(review.suggestions[i].message)
  \/ /\ review.positives.t = "array"
     /\ \E i \in 1..Len(review.positives.a) : Throws(review.positives.a[i])

validateAndNormalizeReview(data) ==
  IF ~isObject(data) THEN createFallbackReview(JSONStringify(data))
  ELSE LET review ==
             [t |-> "review",
              summary |-> OrElse(getString(Get(data, "summary")),
                                 <<"Review completed">>),
              verdict |-> normalizeVerdict(Get(data, "verdict")),
              issues |-> normalizeIssues(Get(data, "issues")),
              suggestions |-> normalizeSuggestions(Get(data, "suggestions")),
              positives |-> normalizePositives(Get(data, "positives"))]
       IN IF Broken(review) THEN TypeError ELSE review

\* textContent || output
contentToParse(output) ==
  LET textContent == extractTextFromEvents(output)
  IN IF textContent.t = "string" /\ textContent.s # <<>>
     THEN textContent.s ELSE output

parseReviewResponse(output) ==
  LET textContent == extractTextFromEvents(output)
      json == extractJson(contentToParse(output))
  IN IF Throws(textContent) THEN textContent
     ELSE IF ~Truthy(json) THEN createFallbackReview(contentToParse(output))
     ELSE validateAndNormalizeReview(json)

\* ------------------------------------------------------ error classifier
\* `${stdout}\n${stderr}`
Combined(stdout, stderr) == stdout \o <<"nl">> \o stderr

isApiKeyError(text) ==
  includes(text, "api key") \/ includes(text, "unauthorized") \/ includes(text, "401")

isRateLimitError(text) ==
  includes(text, "rate limit") \/ includes(text, "429") \/ includes(text, "too many")

isModelError(text) ==
  includes(text, "model") /\ (includes(text, "not found") \/ includes(text, "invalid"))

isContextError(text) ==
  includes(text, "context") \/ includes(text, "too long") \/ includes(text, "token limit")

isNetworkError(text) ==
  \/ includes(text, "network")
  \/ includes(text, "econnrefused")
  \/ includes(text, "econnreset")
  \/ includes(text, "timeout")

\* an OpenCodeCLIError: its type, the exit code its message names (NoValue
\* when the message is fixed) and its details (<<>> when they are fixed)
CLIError(type, exitCode, details) ==
  [type |-> type, exitCode |-> exitCode, details |-> details]

\* details.slice(0, 500)
createUnknownError(exitCode, details) ==
  CLIError("UNKNOWN", exitCode, slice(details, PreviewChars))

\* stderr || stdout: the empty string is falsy
parseOpenCodeError(exitCode, stdout, stderr) ==
  LET combined == toLowerCase(Combined(stdout, stderr))
  IN IF isApiKeyError(combined) THEN CLIError("API_KEY_MISSING", NoValue, <<>>)
     ELSE IF isRateLimitError(combined) THEN CLIError("RATE_LIMITED", NoValue, <<>>)
     ELSE IF isModelError(combined) THEN CLIError("MODEL_NOT_FOUND", NoValue, stderr)
     ELSE IF isContextError(combined) THEN CLIError("CONTEXT_TOO_LONG", NoValue, <<>>)
     ELSE IF isNetworkError(combined) THEN CLIError("NETWORK_ERROR", NoValue, <<>>)
     ELSE createUnknownError(exitCode, IF stderr # <<>> THEN stderr ELSE stdout)

\* ------------------------------------------------------------ diff parser
\* A line of a patch is the sequence of its characters; x stands for the
\* rest of the line.
startsWith(line, prefix) ==
  Len(line) >= Len(prefix) /\ SubSeq(line, 1, Len(prefix)) = prefix

\* parseInt(digit, 10)
parseInt(digit) ==
  CASE digit = "0" -> 0 [] digit = "1" -> 1 [] digit = "2" -> 2
    [] digit = "3" -> 3 [] digit = "4" -> 4 [] digit = "5" -> 5
    [] digit = "6" -> 6 [] digit = "7" -> 7 [] digit = "8" -> 8
    [] digit = "9" -> 9

DigitChars == {"0", "1", "2", "3", "4", "5", "6", "7", "8", "9"}

\* @@ -a +c @@
HunkHeader(a, c) == <<"@", "@", " ", "-", a, " ", "+", c, " ", "@", "@">>

\* line.match(/@@ -\d+,?\d* \+(\d+),?\d* @@/), for headers of one-digit numbers
HunkMatch(line) ==
  /\ Len(line) >= 11
  /\ line[5] \in DigitChars /\ line[8] \in DigitChars
  /\ SubSeq(line, 1, 11) = HunkHeader(line[5], line[8])

NoLine == [info |-> [lineNumber |-> 0, type |-> "none"], nextNewLine |-> 0]

\* NoLine stands for null
parseSingleLine(line, currentNewLine) ==
  IF startsWith(line, <<"@", "@">>)
  THEN LET newStart == IF HunkMatch(line) THEN parseInt(line[8])
                       ELSE currentNewLine
       IN [info |-> [lineNumber |-> newStart, type |-> "hunk"],
           nextNewLine |-> newStart]
  ELSE IF startsWith(line, <<"-", "-", "-">>) \/ startsWith(line, <<"+", "+", "+">>)
  THEN NoLine
  ELSE IF startsWith(line, <<"\\">>) THEN NoLine
  ELSE IF startsWith(line, <<"+">>)
  THEN [info |-> [lineNumber |-> currentNewLine, type |-> "add"],
        nextNewLine |-> currentNewLine + 1]
  ELSE IF startsWith(line, <<"-">>)
  THEN [info |-> [lineNumber |-> currentNewLine, type |-> "delete"],
        nextNewLine |-> currentNewLine]
  ELSE [info |-> [lineNumber |-> currentNewLine, type |-> "context"],
        nextNewLine |-> currentNewLine + 1]

RECURSIVE ParseLoop(_, _, _, _)
ParseLoop(lines, i, result, newLine) ==
  IF i > Len(lines) THEN result
  ELSE LET parsed == parseSingleLine(lines[i], newLine)
       IN IF parsed = NoLine THEN ParseLoop(lines, i + 1, result, newLine)
          ELSE ParseLoop(lines, i + 1, Append(result, parsed.info),
                         parsed.nextNewLine)

\* the patch is given by its lines; the empty patch has none
parseDiffPatch(patch) == ParseLoop(patch, 1, <<>>, 0)

LineNumbersOf(infos) == [i \in 1..Len(infos) |-> infos[i].lineNumber]

getValidLineNumbers(patch) ==
  LineNumbersOf(SelectSeq(parseDiffPatch(patch),
                          LAMBDA l : l.type = "add" \/ l.type = "context"))

\* Math.max(...candidates), candidates not empty
MathMax(candidates) ==
  CHOOSE m \in {candidates[i] : i \in 1..Len(candidates)} :
    \A i \in 1..Len(candidates) : candidates[i] <= m

findClosestLineBeforeFirst(line, validLines) ==
  LET candidates == SelectSeq(validLines, LAMBDA l : l <= line)
  IN IF Len(candidates) = 0 THEN JSNull ELSE Num(candidates[1])

findClosestLineBefore(line, validLines) ==
  LET candidates == SelectSeq(validLines, LAMBDA l : l <= line)
  IN IF Len(candidates) = 0 THEN JSNull ELSE Num(MathMax(candidates))

\* validLines.includes(line)
SeqIncludes(seq, x) == \E i \in 1..Len(seq) : seq[i] = x

validateLineKeepsLine(line, patch) ==
  LET validLines == getValidLineNumbers(patch)
      closest == findClosestLineBefore(line, validLines)
  IN IF SeqIncludes(validLines, line)
     THEN [requestedLine |-> line, isValid |-> TRUE, actualLine |-> line,
           warning |-> "none"]
     ELSE IF closest = JSNull
     THEN [requestedLine |-> line, isValid |-> FALSE, actualLine |-> line,
           warning |-> "no earlier line available"]
     ELSE [requestedLine |-> line, isValid |-> TRUE, actualLine |-> line,
           warning |-> "using line"]

\* warning "none": the result has no warning
validateLine(line, patch) ==
  LET validLines == getValidLineNumbers(patch)
      closest == findClosestLineBefore(line, validLines)
  IN IF SeqIncludes(validLines, line)
     THEN [requestedLine |-> line, isValid |-> TRUE, actualLine |-> line,
           warning |-> "none"]
     ELSE IF closest = JSNull
     THEN [requestedLine |-> line, isValid |-> FALSE, actualLine |-> line,
           warning |-> "no earlier line available"]
     ELSE [requestedLine |-> line, isValid |-> TRUE, actualLine |-> closest.n,
           warning |-> "using line"]

\* ------------------------------------------------- inline comment preparer
\* An issue has a file ("" when it names none) and a line (0 when it names
\* none); a file of the PR has a filename and a patch, <<>> when GitHub sent
\* none.
\* new Map(files.map((f) => [f.filename, f])).get(name): the last file of
\* that name, NoFile when there is none
NoFile == [filename |-> "", patch |-> <<>>]

fileMapGet(files, name) ==
  LET at == {i \in 1..Len(files) : files[i].filename = name}
  IN IF at = {} THEN NoFile ELSE files[CHOOSE i \in at : \A j \in at : j <= i]

NoComment == [issueIndex |-> -1]

createInvalidComment(issue, issueIndex, warning) ==
  [issue |-> issue, file |-> issue.file, requestedLine |-> issue.line,
   actualLine |-> issue.line, isValid |-> FALSE, warning |-> warning,
   selected |-> FALSE, issueIndex |-> issueIndex]

prepareCommentSelected(issue, issueIndex, files) ==
  LET file == fileMapGet(files, issue.file)
      validation == validateLine(issue.line, file.patch)
  IN IF issue.file = "" \/ issue.line = 0 THEN NoComment
     ELSE IF file = NoFile
     THEN createInvalidComment(issue, issueIndex, "File not in this PR")
     ELSE IF file.patch = <<>>
     THEN createInvalidComment(issue, issueIndex, "Binary file, no diff available")
     ELSE [issue |-> issue, file |-> issue.file, requestedLine |-> issue.line,
           actualLine |-> validation.actualLine, isValid |-> validation.isValid,
           warning |-> validation.warning, selected |-> TRUE,
           issueIndex |-> issueIndex]

\* NoComment stands for null
prepareComment(issue, issueIndex, files) ==
  LET file == fileMapGet(files, issue.file)
      validation == validateLine(issue.line, file.patch)
  IN IF issue.file = "" \/ issue.line = 0 THEN NoComment
     ELSE IF file = NoFile
     THEN createInvalidComment(issue, issueIndex, "File not in this PR")
     ELSE IF file.patch = <<>>
     THEN createInvalidComment(issue, issueIndex, "Binary file, no diff available")
     ELSE [issue |-> issue, file |-> issue.file, requestedLine |-> issue.line,
           actualLine |-> validation.actualLine, isValid |-> validation.isValid,
           warning |-> validation.warning, selected |-> validation.isValid,
           issueIndex |-> issueIndex]

\* forEach passes the index from 0
RECURSIVE PrepareLoop(_, _, _, _)
PrepareLoop(issues, i, files, comments) ==
  IF i > Len(issues) THEN comments
  ELSE LET comment == prepareComment(issues[i], i - 1, files)
       IN PrepareLoop(issues, i + 1, files,
                      IF comment = NoComment THEN comments
                      ELSE Append(comments, comment))

prepareInlineComments(issues, files) == PrepareLoop(issues, 1, files, <<>>)

\* ---------------------------------------------------------- review poster
\* an optional argument: given with its value, or undefined
Given(value) == [given |-> TRUE, value |-> value]

NotGiven == [given |-> FALSE]

\* the positions 0.. of the elements of a list that pass the filter
Positions(list, keep(_, _)) ==
  SelectSeq([i \in 1..Len(list) |-> i - 1], LAMBDA i : keep(list[i + 1], i))

buildGitHubCommentsAll(inlineComments, selectedIndices) ==
  IF ~inlineComments.given \/ ~selectedIndices.given THEN <<>>
  ELSE LET at == Positions(inlineComments.value,
                           LAMBDA c, i : i \in selectedIndices.value)
       IN [k \in 1..Len(at) |->
            [path |-> inlineComments.value[at[k] + 1].file,
             line |-> inlineComments.value[at[k] + 1].actualLine,
             side |-> "RIGHT",
             body |-> inlineComments.value[at[k] + 1].issue]]

\* body: the issue formatInlineComment formats
buildGitHubComments(inlineComments, selectedIndices) ==
  IF ~inlineComments.given \/ ~selectedIndices.given THEN <<>>
  ELSE LET at == Positions(inlineComments.value,
                           LAMBDA c, i : c.isValid /\ i \in selectedIndices.value)
       IN [k \in 1..Len(at) |->
            [path |-> inlineComments.value[at[k] + 1].file,
             line |-> inlineComments.value[at[k] + 1].actualLine,
             side |-> "RIGHT",
             body |-> inlineComments.value[at[k] + 1].issue]]

getInvalidComments(inlineComments, selectedIndices) ==
  IF ~inlineComments.given \/ ~selectedIndices.given THEN <<>>
  ELSE LET at == Positions(inlineComments.value,
                           LAMBDA c, i : ~c.isValid /\ i \in selectedIndices.value)
       IN [k \in 1..Len(at) |-> inlineComments.value[at[k] + 1]]

\* the body: the formatted review and the comments appended to it
buildReviewBody(invalidComments) ==
  [review |-> "formatted",
   additional |-> [k \in 1..Len(invalidComments) |->
                     [file |-> invalidComments[k].file,
                      requestedLine |-> invalidComments[k].requestedLine,
                      warning |-> invalidComments[k].warning]]]

\* the request sent to GitHub; comments is left out when there are none
postReviewToGitHub(inlineComments, selectedIndices) ==
  LET comments == buildGitHubComments(inlineComments, selectedIndices)
      invalidComments == getInvalidComments(inlineComments, selectedIndices)
  IN [body |-> buildReviewBody(invalidComments),
      comments |-> IF Len(comments) > 0 THEN Given(comments) ELSE NotGiven]

\* the request handlePostReview sends for the comments stored for the PR
handlePostReview(stored, includeInlineComments, selectedCommentIndices) ==
  postReviewToGitHub(IF includeInlineComments THEN Given(stored) ELSE NotGiven,
                     IF includeInlineComments THEN selectedCommentIndices
                     ELSE NotGiven)

\* ---------------------------------------------------------- review filter
\* login.toLowerCase(), for the logins of the model
LowerLogin(login) ==
  CASE login \in {"Me", "ME"} -> "me"
    [] login = "Other" -> "other"
    [] OTHER -> login

isAuthorExact(pr, username) == pr.author = username

isAuthor(pr, username) == LowerLogin(pr.author) = LowerLogin(username)

isUserRequested(pr, username) ==
  LET requestedLogins == [i \in 1..Len(pr.requestedReviewers) |->
                            LowerLogin(pr.requestedReviewers[i])]
  IN SeqIncludes(requestedLogins, LowerLogin(username))

isTeamRequested(pr, userTeams) ==
  \E i \in 1..Len(pr.requestedTeams) : SeqIncludes(userTeams, pr.requestedTeams[i])

shouldShowPR(pr, config) ==
  IF isAuthor(pr, config.username) THEN FALSE
  ELSE IF pr.draft THEN FALSE
  ELSE IF config.showAllPRs THEN TRUE
  ELSE isUserRequested(pr, config.username) \/ isTeamRequested(pr, config.userTeams)

filterPRsForReview(prs, config) == SelectSeq(prs, LAMBDA pr : shouldShowPR(pr, config))

\* ------------------------------------------------------------------ retry
MathMin(a, b) == IF a <= b THEN a ELSE b

\* a variant without the cap
calculateDelayUncapped(attempt, options) == options.baseDelayMs * 2^attempt

calculateDelay(attempt, options) ==
  LET delay == options.baseDelayMs * 2^attempt
  IN MathMin(delay, options.maxDelayMs)

\* opts.shouldRetry?.(error) ?? true: the shouldRetry of the GitHub client
\* accepts status 429 and the errors isRetryableError accepts
shouldRetry(opts, error) ==
  IF opts.shouldRetry THEN error.kind \in {"429", "network"} ELSE TRUE

\* ------------------------------------------------------------------ state
VARIABLES
  reviewStates,      \* reviewStore: Map prId -> ReviewState
  prStates,          \* prStore: Map prId -> PRState (in insertion order)
  now,               \* the clock read by new Date()
  activeReviews,     \* reviewer: Map prId -> client whose run owns the AbortController
  runningProcesses,  \* executor: Map prId -> client whose run owns the ChildProcess
  nextRun,           \* number of the next review run
  lastStart,         \* prId -> number of the latest run started for it (0: none)
  runNo,             \* client -> number of its current run (0: none yet)
  runPr,             \* client -> prId its run reviews
  pc,                \* client -> the await its executeReview is suspended at
  aborted,           \* client -> controller.signal.aborted of its run
  proc,              \* client -> state of the child process of its run
  timer,             \* client -> state of the timeout timer of executeOpenCode
  killTimers,        \* client -> pending setTimeout(() => proc.kill('SIGKILL'))
  sigs,              \* client -> signals sent to its live process
  killed,            \* client -> executeOpenCode's local flag killed
  cancelled,         \* client -> executeOpenCode's local flag cancelled
  settled,           \* client -> how the promise of executeOpenCode settled
  thrown,            \* client -> message of the error executeReview rethrew
  cancelStored,      \* client -> a cancel request aborted its run and stored cancelled
  supersedes,        \* client -> its run started on a cancelled run still winding down
  lastCancel,        \* outcome of the latest handleCancelReview, when logged
  logging,           \* whether the outcomes of cancel requests are logged
  lastSync,          \* the latest direct call of syncPRs, until another call follows
  lastCall,          \* the latest direct call of another operation and what it returned
  poller             \* scheduler: its state, pollCallback and the polls in flight

procVars == <<proc, timer, killTimers, sigs, killed, cancelled, settled>>
orchVars == <<activeReviews, runningProcesses, nextRun, lastStart, runNo, runPr, pc,
              aborted, procVars, thrown, cancelStored, supersedes, lastCancel, logging>>
vars == <<reviewStates, prStates, now, orchVars, lastSync, lastCall, poller>>

\* ------------------------------------------------------------------- Init
\* lastCancel: the request's prId, what cancelReview and setReviewCancelled
\* returned, and what the request found: the status of the ReviewState
\* ("missing": none), whether a run for the PR was in flight, whether one
\* was registered in reviewPullRequest, and what cancelReview would return next
NoCancel == [prId |-> Undefined, cancelled |-> FALSE, stored |-> FALSE,
             was |-> Undefined, inFlight |-> FALSE, registered |-> FALSE,
             again |-> FALSE]

\* lastSync: the arguments of the call, the store it found, what it returned
\* and whether it repeats the call before it
NoSync == [called |-> FALSE, prs |-> <<>>, my |-> {}, before |-> <<>>,
           added |-> <<>>, removed |-> <<>>, repeat |-> FALSE]

\* lastCall: op names the operation; the other fields depend on it
NoCall == [op |-> "none"]

InitBase ==
  /\ reviewStates = EmptyMap
  /\ prStates = <<>>
  /\ now = 1
  /\ activeReviews = EmptyMap
  /\ runningProcesses = EmptyMap
  /\ nextRun = 1
  /\ lastStart = [p \in PRIds |-> 0]
  /\ runNo = [c \in Clients |-> 0]
  /\ runPr = [c \in Clients |-> Undefined]
  /\ pc = [c \in Clients |-> "idle"]
  /\ aborted = [c \in Clients |-> FALSE]
  /\ proc = [c \in Clients |-> "none"]
  /\ timer = [c \in Clients |-> "unset"]
  /\ killTimers = [c \in Clients |-> {}]
  /\ sigs = [c \in Clients |-> {}]
  /\ killed = [c \in Clients |-> FALSE]
  /\ cancelled = [c \in Clients |-> FALSE]
  /\ settled = [c \in Clients |-> "pending"]
  /\ thrown = [c \in Clients |-> Undefined]
  /\ cancelStored = [c \in Clients |-> FALSE]
  /\ supersedes = [c \in Clients |-> FALSE]
  /\ lastCancel = NoCancel
  /\ lastSync = NoSync
  /\ poller = [intervalId |-> NoValue, timers |-> {}, isRunning |-> FALSE,
               lastPollTime |-> NoValue, pollCount |-> 0, pollCallback |-> "null",
               inFlight |-> 0]

InitState == InitBase /\ lastCall = NoCall

Init == InitState /\ logging = FALSE

\* the same behaviours, with the outcome of every cancel request logged
InitLog == InitState /\ logging = TRUE

\* ----------------------------------------------------- review route, runs
\* the first poll: the open PRs reach the PR store, all requesting my review
FirstPoll ==
  /\ prStates = <<>>
  /\ prStates' = syncPRs(prStates, <<[id |-> "pr1", ver |-> 1], [id |-> "pr2", ver |-> 1]>>,
                         OpenPRs).states
  /\ UNCHANGED <<reviewStates, now, orchVars, lastSync, lastCall, poller>>

\* a variant that never throws
checkAbortedNever(c) == FALSE

\* checkAborted(controller) throws 'Review cancelled': the controller of run c
\* has been aborted
checkAborted(c) == aborted[c]

\* the catch block of executeReview
CatchError(store, prId, message, t) ==
  IF message = MsgCancelled
  THEN setReviewCancelled(store, prId, t)
  ELSE setReviewFailed(store, prId, message, t)

\* a variant without the finally block of reviewPullRequest
RunThrowsNoFinally(c, message) ==
  /\ activeReviews' = activeReviews
  /\ reviewStates' = CatchError(reviewStates, runPr[c], message, now)
  /\ thrown' = [thrown EXCEPT ![c] = message]
  /\ pc' = [pc EXCEPT ![c] = "done"]
  /\ UNCHANGED prStates

\* reviewPullRequest throws message: its finally block, then the catch block
\* of executeReview, which rethrows
RunThrows(c, message) ==
  /\ activeReviews' = MapDelete(activeReviews, runPr[c])
  /\ reviewStates' = CatchError(reviewStates, runPr[c], message, now)
  /\ thrown' = [thrown EXCEPT ![c] = message]
  /\ pc' = [pc EXCEPT ![c] = "done"]
  /\ UNCHANGED prStates

\* a variant without the checkAborted that follows executeOpenCode
RunResolvedUnchecked(c) ==
  /\ activeReviews' = MapDelete(activeReviews, runPr[c])
  /\ reviewStates' = setReviewCompleted(
                       updateReviewStage(reviewStates, runPr[c], "parsing"),
                       runPr[c], runNo[c], now)
  /\ prStates' = updatePRStatus(prStates, runPr[c], "reviewed", now)
  /\ pc' = [pc EXCEPT ![c] = "fetchPRFiles"]
  /\ UNCHANGED thrown

\* executeOpenCode resolved: the rest of reviewPullRequest and of the try
\* block of executeReview up to await fetchPRFiles
RunResolved(c) ==
  IF checkAborted(c)
  THEN RunThrows(c, MsgCancelled)
  ELSE /\ activeReviews' = MapDelete(activeReviews, runPr[c])
       /\ reviewStates' = setReviewCompleted(
                            updateReviewStage(reviewStates, runPr[c], "parsing"),
                            runPr[c], runNo[c], now)
       /\ prStates' = updatePRStatus(prStates, runPr[c], "reviewed", now)
       /\ pc' = [pc EXCEPT ![c] = "fetchPRFiles"]
       /\ UNCHANGED thrown

\* some review run for prId has started and not yet ended
InFlight(prId) == \E c \in Clients : runPr[c] = prId /\ pc[c] \notin {"idle", "done"}

StatusOf(store, prId) == IF prId \in DOMAIN store THEN store[prId].status ELSE "missing"

\* client c has no request pending: it never sent one or got its reply, and
\* the process of its last run is closed
ClientFree(c) == pc[c] \in {"idle", "done"} /\ proc[c] # "errored"

\* handleStartReview up to the first await of executeReview, for a request of
\* client c (the clients are interchangeable: c1 sends the first request)
handleStartReview(c, prId) ==
  /\ nextRun <= MaxRuns
  /\ ClientFree(c)
  /\ c = "c2" => runNo["c1"] # 0
  /\ PRHas(prStates, prId)
  /\ reviewStates' = updateReviewStage(
                       setReviewInProgress(reviewStates, prId, "starting", now),
                       prId, "fetching_diff")
  /\ prStates' = updatePRStatus(prStates, prId, "reviewing", now)
  /\ runNo' = [runNo EXCEPT ![c] = nextRun]
  /\ runPr' = [runPr EXCEPT ![c] = prId]
  /\ lastStart' = [lastStart EXCEPT ![prId] = nextRun]
  /\ pc' = [pc EXCEPT ![c] = "fetchPRDiff"]
  /\ nextRun' = nextRun + 1
  /\ now' = now + 1
  /\ aborted' = [aborted EXCEPT ![c] = FALSE]
  /\ proc' = [proc EXCEPT ![c] = "none"]
  /\ timer' = [timer EXCEPT ![c] = "unset"]
  /\ killed' = [killed EXCEPT ![c] = FALSE]
  /\ cancelled' = [cancelled EXCEPT ![c] = FALSE]
  /\ settled' = [settled EXCEPT ![c] = "pending"]
  /\ thrown' = [thrown EXCEPT ![c] = Undefined]
  /\ cancelStored' = [cancelStored EXCEPT ![c] = FALSE]
  /\ supersedes' = [supersedes EXCEPT ![c] =
                      StatusOf(reviewStates, prId) = "cancelled"
                      /\ \E o \in Clients \ {c} :
                            runPr[o] = prId /\ cancelStored[o] /\ pc[o] # "done"]
  /\ UNCHANGED <<activeReviews, runningProcesses, killTimers, sigs, lastCancel, logging, lastSync, lastCall, poller>>

\* fetchPRDiff resolves: stage analyzing, reviewPullRequest registers its
\* AbortController and awaits the installation check
FetchPRDiffResolves(c) ==
  /\ pc[c] = "fetchPRDiff"
  /\ reviewStates' = updateReviewStage(reviewStates, runPr[c], "analyzing")
  /\ activeReviews' = MapSet(activeReviews, runPr[c], c)
  /\ pc' = [pc EXCEPT ![c] = "detect"]
  /\ UNCHANGED <<prStates, now, runningProcesses, nextRun, lastStart, runNo, runPr,
                 aborted, procVars, thrown, cancelStored, supersedes, lastCancel, logging, lastSync, lastCall, poller>>

\* fetchPRDiff rejects: the catch block of executeReview
FetchPRDiffRejects(c) ==
  /\ pc[c] = "fetchPRDiff"
  /\ reviewStates' = CatchError(reviewStates, runPr[c], MsgFetch, now)
  /\ thrown' = [thrown EXCEPT ![c] = MsgFetch]
  /\ pc' = [pc EXCEPT ![c] = "done"]
  /\ UNCHANGED <<prStates, now, activeReviews, runningProcesses, nextRun, lastStart,
                 runNo, runPr, aborted, procVars, cancelStored, supersedes, lastCancel, logging, lastSync, lastCall, poller>>

\* getOpenCodePath / isOpenCodeInstalled resolve with installed = FALSE
DetectNotInstalled(c) ==
  /\ pc[c] = "detect"
  /\ RunThrows(c, MsgNotInstalled)
  /\ UNCHANGED <<now, runningProcesses, nextRun, lastStart, runNo, runPr, aborted,
                 procVars, cancelStored, supersedes, lastCancel, logging, lastSync, lastCall, poller>>

\* installed, but the controller was aborted meanwhile: checkAborted throws
DetectAborted(c) ==
  /\ pc[c] = "detect"
  /\ checkAborted(c)
  /\ RunThrows(c, MsgCancelled)
  /\ UNCHANGED <<now, runningProcesses, nextRun, lastStart, runNo, runPr, aborted,
                 procVars, cancelStored, supersedes, lastCancel, logging, lastSync, lastCall, poller>>

\* installed and not aborted: onProgress('generating'), then executeOpenCode
\* spawns the process, registers it and arms the timeout timer.  spawned =
\* FALSE is a spawn whose 'error' event is queued.
SpawnProcess(c, spawned) ==
  /\ pc[c] = "detect"
  /\ ~checkAborted(c)
  /\ reviewStates' = updateReviewStage(reviewStates, runPr[c], "generating")
  /\ proc' = [proc EXCEPT ![c] = IF spawned THEN "running" ELSE "failing"]
  /\ runningProcesses' = MapSet(runningProcesses, runPr[c], c)
  /\ timer' = [timer EXCEPT ![c] = "armed"]
  /\ pc' = [pc EXCEPT ![c] = "execute"]
  /\ UNCHANGED <<prStates, now, activeReviews, nextRun, lastStart, runNo, runPr, aborted,
                 killTimers, sigs, killed, cancelled, settled, thrown, cancelStored,
                 supersedes, lastCancel, logging, lastSync, lastCall, poller>>

\* the exit codes a close event can carry; NullExit is JavaScript's null
NullExit == -1
ExitCodes == {0, 1, NullExit}

\* a variant that looks at the exit code before the killed flag
CloseSettlementExitFirst(c, exitCode) ==
  IF cancelled[c] THEN MsgCancelled
  ELSE IF exitCode = 0 THEN "resolved"
  ELSE IF killed[c] THEN MsgTimeout
  ELSE MsgExit

\* a variant that takes an absent exit code for a clean exit
CloseSettlementNullClean(c, exitCode) ==
  IF cancelled[c] THEN MsgCancelled
  ELSE IF killed[c] THEN MsgTimeout
  ELSE IF (IF exitCode = NullExit THEN 0 ELSE exitCode) # 0 THEN MsgExit
  ELSE "resolved"

\* how the close handler settles the promise
CloseSettlement(c, exitCode) ==
  IF cancelled[c] THEN MsgCancelled
  ELSE IF killed[c] THEN MsgTimeout
  ELSE IF (IF exitCode = NullExit THEN 1 ELSE exitCode) # 0 THEN MsgExit
  ELSE "resolved"

\* proc.on('close'): exitCode is NullExit (null) when a signal ended the process.
\* The kill timers still pending for the closed process only ever call kill
\* on a process that is gone, which does nothing: they leave the state here,
\* and so do the signals recorded for the process.
ProcClose(c, exitCode) ==
  /\ proc[c] \in {"running", "errored"}
  /\ proc' = [proc EXCEPT ![c] = "closed"]
  /\ timer' = [timer EXCEPT ![c] = IF timer[c] = "armed" THEN "cleared" ELSE timer[c]]
  /\ runningProcesses' = MapDelete(runningProcesses, runPr[c])
  /\ IF settled[c] # "pending"
     THEN UNCHANGED <<reviewStates, prStates, activeReviews, pc, settled, thrown>>
     ELSE LET how == CloseSettlement(c, exitCode) IN
          /\ settled' = [settled EXCEPT ![c] = how]
          /\ IF how = "resolved" THEN RunResolved(c) ELSE RunThrows(c, how)
  /\ killTimers' = [killTimers EXCEPT ![c] = {}]
  /\ sigs' = [sigs EXCEPT ![c] = {}]
  /\ UNCHANGED <<now, nextRun, lastStart, runNo, runPr, aborted, killed, cancelled,
                 cancelStored, supersedes, lastCancel, logging, lastSync, lastCall, poller>>

\* proc.on('error'): the spawn failed; message is err.message
ProcError(c, message) ==
  /\ proc[c] = "failing"
  /\ proc' = [proc EXCEPT ![c] = "errored"]
  /\ timer' = [timer EXCEPT ![c] = "cleared"]
  /\ runningProcesses' = MapDelete(runningProcesses, runPr[c])
  /\ LET how == IF message = "SIGTERM" THEN MsgCancelled ELSE MsgSpawn IN
     /\ cancelled' = [cancelled EXCEPT ![c] = (message = "SIGTERM")]
     /\ settled' = [settled EXCEPT ![c] = how]
     /\ RunThrows(c, how)
  /\ killTimers' = [killTimers EXCEPT ![c] = {}]
  /\ UNCHANGED <<now, nextRun, lastStart, runNo, runPr, aborted, sigs, killed,
                 cancelStored, supersedes, lastCancel, logging, lastSync, lastCall, poller>>

\* a variant that sends SIGTERM without scheduling SIGKILL
TimeoutFiresNoKill(c) ==
  /\ timer[c] = "armed"
  /\ proc[c] = "running"
  /\ killed' = [killed EXCEPT ![c] = TRUE]
  /\ timer' = [timer EXCEPT ![c] = "fired"]
  /\ sigs' = [sigs EXCEPT ![c] = @ \cup {"SIGTERM"}]
  /\ UNCHANGED <<reviewStates, prStates, now, activeReviews, runningProcesses, nextRun,
                 lastStart, runNo, runPr, pc, aborted, proc, cancelled, settled, thrown,
                 killTimers, cancelStored, supersedes, lastCancel, logging, lastSync, lastCall, poller>>

\* the timeout timer of executeOpenCode fires
TimeoutFires(c) ==
  /\ timer[c] = "armed"
  /\ proc[c] = "running"
  /\ killed' = [killed EXCEPT ![c] = TRUE]
  /\ timer' = [timer EXCEPT ![c] = "fired"]
  /\ sigs' = [sigs EXCEPT ![c] = @ \cup {"SIGTERM"}]
  /\ killTimers' = [killTimers EXCEPT ![c] = @ \cup {"timeout"}]
  /\ UNCHANGED <<reviewStates, prStates, now, activeReviews, runningProcesses, nextRun,
                 lastStart, runNo, runPr, pc, aborted, proc, cancelled, settled, thrown,
                 cancelStored, supersedes, lastCancel, logging, lastSync, lastCall, poller>>

\* a setTimeout(() => proc.kill('SIGKILL')) fires; which is "timeout" (5 s
\* after the timeout) or "abort" (2 s after abortExecution)
KillTimerFires(c, which) ==
  /\ which \in killTimers[c]
  /\ killTimers' = [killTimers EXCEPT ![c] = @ \ {which}]
  /\ sigs' = [sigs EXCEPT ![c] = IF proc[c] = "running" THEN @ \cup {"SIGKILL"} ELSE @]
  /\ UNCHANGED <<reviewStates, prStates, now, activeReviews, runningProcesses, nextRun,
                 lastStart, runNo, runPr, pc, aborted, proc, timer, killed, cancelled,
                 settled, thrown, cancelStored, supersedes, lastCancel, logging, lastSync, lastCall, poller>>

\* the inline comment lists prepareInlineComments can return
CommentLists == {<<>>, <<[issueIndex |-> 0, isValid |-> TRUE, selected |-> TRUE]>>}

\* fetchPRFiles resolves: the inline comments are prepared and stored
FetchPRFilesResolves(c, comments) ==
  /\ pc[c] = "fetchPRFiles"
  /\ reviewStates' = setInlineComments(reviewStates, runPr[c], comments)
  /\ pc' = [pc EXCEPT ![c] = "done"]
  /\ UNCHANGED <<prStates, now, activeReviews, runningProcesses, nextRun, lastStart,
                 runNo, runPr, aborted, procVars, thrown, cancelStored, supersedes, lastCancel, logging, lastSync, lastCall, poller>>

\* fetchPRFiles rejects: the catch block of executeReview
FetchPRFilesRejects(c) ==
  /\ pc[c] = "fetchPRFiles"
  /\ reviewStates' = CatchError(reviewStates, runPr[c], MsgFetch, now)
  /\ thrown' = [thrown EXCEPT ![c] = MsgFetch]
  /\ pc' = [pc EXCEPT ![c] = "done"]
  /\ UNCHANGED <<prStates, now, activeReviews, runningProcesses, nextRun, lastStart,
                 runNo, runPr, aborted, procVars, cancelStored, supersedes, lastCancel, logging, lastSync, lastCall, poller>>

\* abortExecution(prId): the signals, kill timers and process map after it
abortExecution(prId) ==
  IF prId \in DOMAIN runningProcesses
  THEN LET q == runningProcesses[prId] IN
       /\ sigs' = [sigs EXCEPT ![q] = IF proc[q] = "running" THEN @ \cup {"SIGTERM"} ELSE @]
       /\ killTimers' = [killTimers EXCEPT ![q] = @ \cup {"abort"}]
       /\ runningProcesses' = MapDelete(runningProcesses, prId)
  ELSE UNCHANGED <<sigs, killTimers, runningProcesses>>

\* the boolean that abortExecution returns
abortExecutionRet(prId) == prId \in DOMAIN runningProcesses

\* some review run for prId has registered its AbortController, has not been
\* cancelled and has not yet run the finally block of reviewPullRequest
Registered(prId) ==
  \E c \in Clients :
    runPr[c] = prId /\ pc[c] \in {"detect", "execute"} /\ ~aborted[c]

\* the boolean that cancelReview returns
cancelReviewRet(prId) == prId \in DOMAIN activeReviews

\* handleCancelReview with cancelReview of the reviewer
handleCancelReview(prId) ==
  /\ IF cancelReviewRet(prId)
     THEN LET c == activeReviews[prId] IN
          /\ aborted' = [aborted EXCEPT ![c] = TRUE]
          /\ activeReviews' = MapDelete(activeReviews, prId)
          /\ abortExecution(prId)
          /\ reviewStates' = setReviewCancelled(reviewStates, prId, now)
          /\ cancelStored' = [cancelStored EXCEPT
                                ![c] = setReviewCancelledRet(reviewStates, prId)]
     ELSE UNCHANGED <<aborted, activeReviews, sigs, killTimers, runningProcesses,
                      reviewStates, cancelStored>>
  /\ lastCancel' = IF logging
                   THEN [prId |-> prId, cancelled |-> cancelReviewRet(prId),
                         stored |-> cancelReviewRet(prId)
                                    /\ setReviewCancelledRet(reviewStates, prId),
                         was |-> StatusOf(reviewStates, prId),
                         inFlight |-> InFlight(prId),
                         registered |-> Registered(prId),
                         again |-> prId \in DOMAIN activeReviews']
                   ELSE lastCancel
  /\ UNCHANGED <<prStates, now, nextRun, lastStart, runNo, runPr, pc, proc, timer, killed,
                 cancelled, settled, thrown, supersedes, logging, lastSync, lastCall, poller>>

Next ==
  \/ FirstPoll
  \/ \E c \in Clients, prId \in RequestedPRs : handleStartReview(c, prId)
  \/ \E prId \in OpenPRs : handleCancelReview(prId)
  \/ \E c \in Clients : FetchPRDiffResolves(c)
  \/ \E c \in Clients : FetchPRDiffRejects(c)
  \/ \E c \in Clients : DetectNotInstalled(c)
  \/ \E c \in Clients : DetectAborted(c)
  \/ \E c \in Clients, spawned \in BOOLEAN : SpawnProcess(c, spawned)
  \/ \E c \in Clients, exitCode \in ExitCodes : ProcClose(c, exitCode)
  \/ \E c \in Clients, message \in {"spawn", "SIGTERM"} : ProcError(c, message)
  \/ \E c \in Clients : TimeoutFires(c)
  \/ \E c \in Clients, which \in {"timeout", "abort"} : KillTimerFires(c, which)
  \/ \E c \in Clients, comments \in CommentLists : FetchPRFilesResolves(c, comments)
  \/ \E c \in Clients : FetchPRFilesRejects(c)

Spec == Init /\ [][Next]_vars

SpecLog == InitLog /\ [][Next]_vars

\* ------------------------------------------------ direct executor calls
\* the runs whose ChildProcess for prId exists and has neither closed nor
\* reported an error
Processes(prId) ==
  {c \in Clients : runPr[c] = prId /\ proc[c] \in {"running", "failing"}}

\* abortExecution(prId) called on its own, as the executor exports it.
\* lastCall tells what the call returned, whether it found a running process
\* of prId that was never signalled (fresh) or no process of prId (none),
\* whether it sent SIGTERM to a process of prId and scheduled its SIGKILL,
\* whether it changed anything, and whether prId is registered after it
AbortCall(prId) ==
  /\ abortExecution(prId)
  /\ lastCall' =
       [op |-> "abortExecution", prId |-> prId, ret |-> abortExecutionRet(prId),
        fresh |-> \E c \in Processes(prId) : proc[c] = "running" /\ sigs[c] = {},
        none |-> Processes(prId) = {},
        signalled |-> \E c \in Processes(prId) :
                        /\ "abort" \in killTimers'[c] \ killTimers[c]
                        /\ proc[c] = "running" => "SIGTERM" \in sigs'[c],
        changed |-> <<sigs', killTimers', runningProcesses'>>
                      # <<sigs, killTimers, runningProcesses>>,
        registered |-> prId \in DOMAIN runningProcesses']
  /\ UNCHANGED <<reviewStates, prStates, now, activeReviews, nextRun, lastStart, runNo,
                 runPr, pc, aborted, proc, timer, killed, cancelled, settled, thrown,
                 cancelStored, supersedes, lastCancel, logging, lastSync, poller>>

NextAbort == Next \/ \E prId \in RequestedPRs : AbortCall(prId)

\* the review behaviours with direct abortExecution calls in between
SpecAbort == Init /\ [][NextAbort]_vars


\* ------------------------------------------------- direct PR store calls
\* the order in which GitHub lists the open PRs
Listing == <<"pr1", "pr2", "pr3">>
\* content versions of a fetched PullRequest
Versions == {1, 2}
\* the PRs ids of the listing, all fetched at version ver
SnapshotOf(ids, ver) ==
  LET s == SelectSeq(Listing, LAMBDA id : id \in ids)
  IN [i \in DOMAIN s |-> [id |-> s[i], ver |-> ver]]
Snapshots ==
  {SnapshotOf(ids, ver) :
     ids \in {S \in SUBSET PRIds : Cardinality(S) <= MaxSnapshot}, ver \in Versions}
\* the ids the search for PRs awaiting my review can return
AttentionSets == {{}, {"pr1"}, {"pr1", "pr2"}}

\* prStore.syncPRs(prs, myReviewPRIds)
SyncCall(prs, myReviewPRIds) ==
  /\ now <= MaxOps
  /\ LET r == syncPRs(prStates, prs, myReviewPRIds) IN
     /\ prStates' = r.states
     /\ lastSync' = [called |-> TRUE, prs |-> prs, my |-> myReviewPRIds,
                     before |-> prStates, added |-> r.added, removed |-> r.removed,
                     repeat |-> /\ lastSync.called
                                /\ lastSync.prs = prs
                                /\ lastSync.my = myReviewPRIds]
  /\ lastCall' = NoCall
  /\ now' = now + 1
  /\ UNCHANGED <<reviewStates, orchVars, poller>>

\* prStore.updatePRStatus(prId, status), with one change listener registered
UpdateStatusCall(prId, status) ==
  /\ now <= MaxOps
  /\ prStates' = updatePRStatus(prStates, prId, status, now)
  /\ lastSync' = NoSync
  /\ lastCall' = [op |-> "updatePRStatus", prId |-> prId, status |-> status,
                  t |-> now, before |-> prStates,
                  notified |-> updatePRStatusNotifies(prStates, prId, status, now)]
  /\ now' = now + 1
  /\ UNCHANGED <<reviewStates, orchVars, poller>>

NextSync ==
  \/ \E prs \in Snapshots, my \in AttentionSets : SyncCall(prs, my)
  \/ \E prId \in PRIds, status \in PRStatuses : UpdateStatusCall(prId, status)

SpecSync == Init /\ [][NextSync]_vars

\* -------------------------------------------------------- polling scheduler
\* startPolling: registers the callback, runs a poll at once and schedules
\* the recurring polls; it returns at once when polling is already running
\* The handle that setInterval returns is the time of the call; timers holds
\* the handles of the interval timers that have not been cleared.  lastCall
\* tells whether polling was running, whether a callback had been
\* registered before, and whether the call changed the scheduler.
Started(callback) ==
  [poller EXCEPT !.pollCallback = callback, !.isRunning = TRUE,
                 !.intervalId = now, !.timers = @ \cup {now}, !.inFlight = @ + 1]

\* a variant without the isRunning guard
startPollingUnguarded(callback) ==
  /\ now <= MaxOps
  /\ poller' = Started(callback)
  /\ lastCall' = [op |-> "startPolling", callback |-> callback,
                  was |-> poller.isRunning, again |-> poller.pollCallback # "null",
                  changed |-> poller' # poller]
  /\ now' = now + 1
  /\ UNCHANGED <<reviewStates, prStates, orchVars, lastSync>>

startPolling(callback) ==
  /\ now <= MaxOps
  /\ poller' = IF poller.isRunning THEN poller ELSE Started(callback)
  /\ lastCall' = [op |-> "startPolling", callback |-> callback,
                  was |-> poller.isRunning, again |-> poller.pollCallback # "null",
                  changed |-> poller' # poller]
  /\ now' = now + 1
  /\ UNCHANGED <<reviewStates, prStates, orchVars, lastSync>>

\* clearInterval when intervalId is set
stopPolling ==
  /\ poller' = [poller EXCEPT !.intervalId = NoValue, !.isRunning = FALSE,
                              !.timers = @ \ {poller.intervalId}]
  /\ UNCHANGED <<reviewStates, prStates, now, orchVars, lastSync, lastCall>>

\* an interval timer fires: runPoll starts and awaits fetchAllOrgPRs
IntervalFires ==
  /\ poller.timers # {}
  /\ now <= MaxOps
  /\ poller' = [poller EXCEPT !.inFlight = @ + 1]
  /\ now' = now + 1
  /\ UNCHANGED <<reviewStates, prStates, orchVars, lastSync, lastCall>>

\* the manual refresh route: pollNow starts runPoll
pollNow ==
  /\ now <= MaxOps
  /\ poller' = [poller EXCEPT !.inFlight = @ + 1]
  /\ now' = now + 1
  /\ UNCHANGED <<reviewStates, prStates, orchVars, lastSync, lastCall>>

\* fetchAllOrgPRs resolves in a runPoll: prs are the PRs of others, the ids in
\* myReviewPRIds those among them that request my review
PollResolves(prs, myReviewPRIds) ==
  /\ poller.inFlight > 0
  /\ myReviewPRIds \subseteq {prs[i].id : i \in DOMAIN prs}
  /\ LET r == syncPRs(prStates, prs, myReviewPRIds)
         newStates == getNewPRs(r.states)
         newPRs == [i \in DOMAIN newStates |-> newStates[i].pr]
     IN /\ prStates' = r.states
        /\ lastCall' = [op |-> "runPoll", added |-> r.added, newPRs |-> newPRs,
                        allPRs |-> prs, called |-> poller.pollCallback # "null"]
  /\ poller' = [poller EXCEPT !.inFlight = @ - 1, !.lastPollTime = now,
                              !.pollCount = @ + 1]
  /\ UNCHANGED <<reviewStates, now, orchVars, lastSync>>

\* a variant that counts the failed poll
PollRejectsCounted ==
  /\ poller.inFlight > 0
  /\ poller' = [poller EXCEPT !.inFlight = @ - 1, !.lastPollTime = now,
                              !.pollCount = @ + 1]
  /\ lastCall' = [op |-> "runPoll failed", ret |-> <<>>, called |-> FALSE,
                  states |-> prStates, before |-> poller]
  /\ UNCHANGED <<reviewStates, prStates, now, orchVars, lastSync>>

\* fetchAllOrgPRs rejects: the catch block of runPoll returns [].  lastCall
\* holds what the poll returned, whether it called the callback, and the PR
\* store and the scheduler as the rejection found them
PollRejects ==
  /\ poller.inFlight > 0
  /\ poller' = [poller EXCEPT !.inFlight = @ - 1]
  /\ lastCall' = [op |-> "runPoll failed", ret |-> <<>>, called |-> FALSE,
                  states |-> prStates, before |-> poller]
  /\ UNCHANGED <<reviewStates, prStates, now, orchVars, lastSync>>

\* the route that marks a PR as seen
MarkSeen(prId) ==
  /\ now <= MaxOps
  /\ prStates' = updatePRStatus(prStates, prId, "seen", now)
  /\ now' = now + 1
  /\ UNCHANGED <<reviewStates, orchVars, lastSync, lastCall, poller>>

Callbacks == {"callback", "other callback"}

NextPoll ==
  \/ \E callback \in Callbacks : startPolling(callback)
  \/ stopPolling
  \/ IntervalFires
  \/ pollNow
  \/ \E prs \in Snapshots, my \in AttentionSets : PollResolves(prs, my)
  \/ PollRejects
  \/ \E prId \in PRIds : MarkSeen(prId)

SpecPoll == Init /\ [][NextPoll]_vars

\* the scheduler alone: every fetch that resolves brings no PR or pr1, and
\* no PR awaits my review
TimerSnapshots == {SnapshotOf({}, 1), SnapshotOf({"pr1"}, 1)}

NextTimer ==
  \/ \E callback \in Callbacks : startPolling(callback)
  \/ stopPolling
  \/ IntervalFires
  \/ pollNow
  \/ \E prs \in TimerSnapshots : PollResolves(prs, {})
  \/ PollRejects

SpecTimer == Init /\ [][NextTimer]_vars

\* --------------------------------------------- direct review store calls
SetReviewPendingCall(prId) ==
  /\ reviewStates' = setReviewPending(reviewStates, prId)

SetReviewInProgressCall(prId, stage) ==
  /\ reviewStates' = setReviewInProgress(reviewStates, prId, stage, now)

UpdateReviewStageCall(prId, stage) ==
  /\ reviewStates' = updateReviewStage(reviewStates, prId, stage)

SetReviewCompletedCall(prId, result) ==
  /\ reviewStates' = setReviewCompleted(reviewStates, prId, result, now)

SetReviewFailedCall(prId, error) ==
  /\ reviewStates' = setReviewFailed(reviewStates, prId, error, now)

SetReviewCancelledCall(prId) ==
  /\ reviewStates' = setReviewCancelled(reviewStates, prId, now)

SetInlineCommentsCall(prId, comments) ==
  /\ reviewStates' = setInlineComments(reviewStates, prId, comments)

\* a call of the review store by any of its users; the clock ticks
StoreCall(prId) ==
  /\ now <= MaxOps
  /\ \/ SetReviewPendingCall(prId)
     \/ \E stage \in Stages \cup {Undefined} : SetReviewInProgressCall(prId, stage)
     \/ \E stage \in Stages : UpdateReviewStageCall(prId, stage)
     \/ SetReviewCompletedCall(prId, 1)
     \/ SetReviewFailedCall(prId, MsgExit)
     \/ SetReviewCancelledCall(prId)
     \/ \E comments \in CommentLists : SetInlineCommentsCall(prId, comments)
  /\ now' = now + 1
  /\ UNCHANGED <<prStates, orchVars, lastSync, lastCall, poller>>

NextStore == \E prId \in OpenPRs : StoreCall(prId)

SpecStore == Init /\ [][NextStore]_vars


\* the same calls, each setReviewInProgress logged with the store it found
LoggedSetReviewInProgress(prId, stage) ==
  /\ now <= MaxOps
  /\ SetReviewInProgressCall(prId, stage)
  /\ lastCall' = [op |-> "setReviewInProgress", prId |-> prId, stage |-> stage,
                  t |-> now, before |-> reviewStates]
  /\ now' = now + 1
  /\ UNCHANGED <<prStates, orchVars, lastSync, poller>>

OtherStoreCall(prId) ==
  /\ now <= MaxOps
  /\ \/ SetReviewPendingCall(prId)
     \/ \E stage \in Stages : UpdateReviewStageCall(prId, stage)
     \/ SetReviewCompletedCall(prId, 1)
     \/ SetReviewFailedCall(prId, MsgExit)
     \/ SetReviewCancelledCall(prId)
     \/ \E comments \in CommentLists : SetInlineCommentsCall(prId, comments)
  /\ lastCall' = NoCall
  /\ now' = now + 1
  /\ UNCHANGED <<prStates, orchVars, lastSync, poller>>

NextStoreLog ==
  \E prId \in OpenPRs :
    \/ \E stage \in Stages \cup {Undefined} : LoggedSetReviewInProgress(prId, stage)
    \/ OtherStoreCall(prId)

SpecStoreLog == Init /\ [][NextStoreLog]_vars

\* ---------------------------------------------------------- withRetry calls
\* One call of withRetry.  lastCall holds the options, the loop variable
\* attempt, where the call stands (awaiting fn, sleeping, returned, threw),
\* how often fn was invoked, the errors fn rejected with, each with the
\* number of the invocation, the delays slept, and what was returned or
\* thrown.
RetryOptions ==
  [maxRetries : 0..MaxRetries, baseDelayMs : {1, 3}, maxDelayMs : {2, 5},
   shouldRetry : BOOLEAN]

ErrorKinds == {"429", "network", "404"}

\* withRetry up to its first await: attempt 0, fn invoked once
InitRetry ==
  /\ InitBase
  /\ logging = FALSE
  /\ lastCall \in {[op |-> "withRetry", opts |-> opts, attempt |-> 0, at |-> "fn",
                      invoked |-> 1, errors |-> <<>>, slept |-> <<>>,
                      ret |-> NoValue, thrown |-> Undefined] : opts \in RetryOptions}

\* fn resolves: return await fn()
FnResolves ==
  /\ lastCall.op = "withRetry" /\ lastCall.at = "fn"
  /\ lastCall' = [lastCall EXCEPT !.at = "returned", !.ret = lastCall.invoked]
  /\ UNCHANGED <<reviewStates, prStates, now, orchVars, lastSync, poller>>

\* fn rejects: the catch block, up to throw error or await sleep(delay)
FnRejects(kind) ==
  /\ lastCall.op = "withRetry" /\ lastCall.at = "fn"
  /\ LET error == [kind |-> kind, of |-> lastCall.invoked]
         hasMoreAttempts == lastCall.attempt < lastCall.opts.maxRetries
     IN lastCall' =
          IF ~shouldRetry(lastCall.opts, error) \/ ~hasMoreAttempts
          THEN [lastCall EXCEPT !.at = "threw", !.thrown = error,
                                !.errors = Append(@, error)]
          ELSE [lastCall EXCEPT !.at = "sleep", !.errors = Append(@, error),
                                !.slept = Append(@, calculateDelay(lastCall.attempt,
                                                                   lastCall.opts))]
  /\ UNCHANGED <<reviewStates, prStates, now, orchVars, lastSync, poller>>

\* the sleep ends: attempt++, the loop condition holds, fn is invoked again
SleepEnds ==
  /\ lastCall.op = "withRetry" /\ lastCall.at = "sleep"
  /\ lastCall' = [lastCall EXCEPT !.attempt = @ + 1, !.at = "fn", !.invoked = @ + 1]
  /\ UNCHANGED <<reviewStates, prStates, now, orchVars, lastSync, poller>>

NextRetry ==
  \/ FnResolves
  \/ \E kind \in ErrorKinds : FnRejects(kind)
  \/ SleepEnds

SpecRetry == InitRetry /\ [][NextRetry]_vars

\* ------------------------------------------------- response parser calls
\* the texts of at most n pieces
TextsOver(pieces, n) == UNION {[1..k -> pieces] : k \in 0..n}

Outputs == TextsOver(OutputPieces, MaxOutput)

InitParse ==
  /\ InitBase
  /\ logging = FALSE
  /\ lastCall \in {[op |-> "output", output |-> output] : output \in Outputs}

ParseCall ==
  /\ lastCall.op = "output"
  /\ lastCall' = [op |-> "parseReviewResponse", output |-> lastCall.output,
                  ret |-> parseReviewResponse(lastCall.output)]
  /\ UNCHANGED <<reviewStates, prStates, now, orchVars, lastSync, poller>>

NextParse == ParseCall

SpecParse == InitParse /\ [][NextParse]_vars

\* the pieces a verdict text is made of: the three keywords in lower and
\* in upper case, another lower-case letter and another upper-case word
VerdictPieces ==
  {"approve", "APPROVE", "request", "REQUEST", "change", "CHANGE", "d", "LGTM"}

\* what the verdict of a parsed object can be
VerdictValues ==
  {Str(s) : s \in TextsOver(VerdictPieces, MaxVerdict)}
    \cup {JSNull, Num(7), Arr(<<Str(<<"APPROVE">>), JSNull>>), Obj(<<>>),
          Obj([toString |-> Num(1)])}

ParsedObjects ==
  {Obj([summary |-> Str(<<"LGTM">>)])}
    \cup {Obj([summary |-> Str(<<"LGTM">>), verdict |-> v]) : v \in VerdictValues}

InitVerdict ==
  /\ InitBase
  /\ logging = FALSE
  /\ lastCall \in {[op |-> "parsed", data |-> data] : data \in ParsedObjects}

NormalizeCall ==
  /\ lastCall.op = "parsed"
  /\ lastCall' = [op |-> "validateAndNormalizeReview", data |-> lastCall.data,
                  ret |-> validateAndNormalizeReview(lastCall.data)]
  /\ UNCHANGED <<reviewStates, prStates, now, orchVars, lastSync, poller>>

NextVerdict == NormalizeCall

SpecVerdict == InitVerdict /\ [][NextVerdict]_vars

\* extractJson called on its own, on texts long enough to hold two fenced
\* blocks, over the pieces the strategies tell apart
ExtractPieces == {"nl", "fence", "jfence", "num", "obj", "evStep", "lbrace", "rbrace"}

InitExtract ==
  /\ InitBase
  /\ logging = FALSE
  /\ lastCall \in {[op |-> "text", output |-> output] :
                      output \in TextsOver(ExtractPieces, MaxExtract)}

ExtractCall ==
  /\ lastCall.op = "text"
  /\ lastCall' = [op |-> "extractJson", output |-> lastCall.output,
                  ret |-> extractJson(lastCall.output)]
  /\ UNCHANGED <<reviewStates, prStates, now, orchVars, lastSync, poller>>

NextExtract == ExtractCall

SpecExtract == InitExtract /\ [][NextExtract]_vars

\* ------------------------------------------------ error classifier calls
\* pieces of process output: Unauthorized, 429, model, invalid, context and
\* timeout are words the classifier looks for, oops is prose, long is 600
\* characters of prose
ErrorPieces ==
  {"Unauthorized", "429", "model", "invalid", "context", "timeout", "oops", "long"}

ErrorTexts == TextsOver(ErrorPieces, MaxError)

FailureCodes == {1, 2}

InitClassify ==
  /\ InitBase
  /\ logging = FALSE
  /\ lastCall \in {[op |-> "exit", exitCode |-> exitCode, stdout |-> stdout,
                      stderr |-> stderr] :
                      exitCode \in FailureCodes, stdout \in ErrorTexts,
                      stderr \in ErrorTexts}

ClassifyCall ==
  /\ lastCall.op = "exit"
  /\ lastCall' = [op |-> "parseOpenCodeError", exitCode |-> lastCall.exitCode,
                  stdout |-> lastCall.stdout, stderr |-> lastCall.stderr,
                  ret |-> parseOpenCodeError(lastCall.exitCode, lastCall.stdout,
                                             lastCall.stderr)]
  /\ UNCHANGED <<reviewStates, prStates, now, orchVars, lastSync, poller>>

NextClassify == ClassifyCall

SpecClassify == InitClassify /\ [][NextClassify]_vars

\* ------------------------------------------------------ diff parser calls
\* the lines of the hunks of a unified diff: hunk headers, added lines (one
\* of them adds the text ++x), deleted lines (one of them deletes the text
\* --x), context lines and the marker of a missing final line break
HunkStarts == {"1", "5"}

HunkHeaders == {HunkHeader("1", c) : c \in HunkStarts}

HunkLines ==
  HunkHeaders
    \cup {<<"+", "x">>, <<"+", "+", "+", "x">>, <<"-", "x">>,
          <<"-", "-", "-", "x">>, <<" ", "x">>, <<"\\", " ", "x">>}

\* --- a/x and +++ b/x
FileHeaders == <<(<<"-", "-", "-", " ", "x">>), (<<"+", "+", "+", " ", "x">>)>>

\* the patches: the file headers or none, a hunk header, and hunk lines
Patches ==
  {<<>>} \cup
  {files \o <<header>> \o rest :
     files \in {<<>>, FileHeaders}, header \in HunkHeaders,
     rest \in TextsOver(HunkLines, MaxPatch)}

InitDiff ==
  /\ InitBase
  /\ logging = FALSE
  /\ lastCall \in {[op |-> "patch", patch |-> patch] : patch \in Patches}

DiffCall ==
  /\ lastCall.op = "patch"
  /\ lastCall' = [op |-> "parseDiffPatch", patch |-> lastCall.patch,
                  ret |-> parseDiffPatch(lastCall.patch),
                  valid |-> getValidLineNumbers(lastCall.patch)]
  /\ UNCHANGED <<reviewStates, prStates, now, orchVars, lastSync, poller>>

NextDiff == DiffCall

SpecDiff == InitDiff /\ [][NextDiff]_vars

LineNumbers == 1..MaxLine

InitClosest ==
  /\ InitBase
  /\ logging = FALSE
  /\ lastCall \in {[op |-> "query", line |-> line, validLines |-> validLines] :
                     line \in LineNumbers,
                     validLines \in TextsOver(LineNumbers, MaxPatch)}

ClosestCall ==
  /\ lastCall.op = "query"
  /\ lastCall' = [op |-> "findClosestLineBefore", line |-> lastCall.line,
                  validLines |-> lastCall.validLines,
                  ret |-> findClosestLineBefore(lastCall.line, lastCall.validLines)]
  /\ UNCHANGED <<reviewStates, prStates, now, orchVars, lastSync, poller>>

NextClosest == ClosestCall

SpecClosest == InitClosest /\ [][NextClosest]_vars

\* the lines asked for: from below the first line of a hunk to beyond the last
RequestedLines == 0..(MaxLine + 3)

InitValidate ==
  /\ InitBase
  /\ logging = FALSE
  /\ lastCall \in {[op |-> "line", line |-> line, patch |-> patch] :
                     line \in RequestedLines, patch \in Patches}

ValidateCall ==
  /\ lastCall.op = "line"
  /\ lastCall' = [op |-> "validateLine", line |-> lastCall.line,
                  patch |-> lastCall.patch,
                  ret |-> validateLine(lastCall.line, lastCall.patch)]
  /\ UNCHANGED <<reviewStates, prStates, now, orchVars, lastSync, poller>>

NextValidate == ValidateCall

SpecValidate == InitValidate /\ [][NextValidate]_vars

\* --------------------------------------------- inline comment preparer calls
\* a patch whose valid lines are 2 and 3
SmallPatch == <<HunkHeader("1", "2"), <<"+", "x">>, <<" ", "x">>>>

\* the files of a PR: a.ts has a patch, b.png has none, c.ts is not in the PR
FileLists ==
  {<<>>,
   <<[filename |-> "a.ts", patch |-> SmallPatch]>>,
   <<[filename |-> "a.ts", patch |-> SmallPatch],
     [filename |-> "b.png", patch |-> <<>>]>>}

Issues ==
  [file : {"", "a.ts", "b.png", "c.ts"}, line : {0, 1, 2, 4},
   severity : {"warning"}]

InitPrepare ==
  /\ InitBase
  /\ logging = FALSE
  /\ lastCall \in {[op |-> "issues", issues |-> issues, files |-> files] :
                     issues \in TextsOver(Issues, MaxIssues), files \in FileLists}

PrepareCall ==
  /\ lastCall.op = "issues"
  /\ lastCall' = [op |-> "prepareInlineComments", issues |-> lastCall.issues,
                  files |-> lastCall.files,
                  ret |-> prepareInlineComments(lastCall.issues, lastCall.files)]
  /\ UNCHANGED <<reviewStates, prStates, now, orchVars, lastSync, poller>>

NextPrepare == PrepareCall

SpecPrepare == InitPrepare /\ [][NextPrepare]_vars

\* ------------------------------------------------------ review poster calls
\* what a post request can select: nothing given, or positions of the list
Selections == {NotGiven} \cup {Given(set) : set \in SUBSET (0..(MaxIssues - 1))}

\* the comments were stored by the run that prepared them from issues and files
InitPost ==
  /\ InitBase
  /\ logging = FALSE
  /\ lastCall \in {[op |-> "post", issues |-> issues, files |-> files,
                      includeInlineComments |-> include,
                      selectedCommentIndices |-> selected] :
                     issues \in TextsOver(Issues, MaxIssues),
                     files \in FileLists \ {<<>>},
                     include \in BOOLEAN, selected \in Selections}

PostCall ==
  /\ lastCall.op = "post"
  /\ lastCall' =
       [op |-> "handlePostReview", files |-> lastCall.files,
        stored |-> prepareInlineComments(lastCall.issues, lastCall.files),
        selectedIndices |-> IF lastCall.includeInlineComments
                            THEN lastCall.selectedCommentIndices ELSE NotGiven,
        request |-> handlePostReview(
                      prepareInlineComments(lastCall.issues, lastCall.files),
                      lastCall.includeInlineComments,
                      lastCall.selectedCommentIndices)]
  /\ UNCHANGED <<reviewStates, prStates, now, orchVars, lastSync, poller>>

NextPost == PostCall

SpecPost == InitPost /\ [][NextPost]_vars

\* ------------------------------------------------------ review filter calls
\* the PRs GitHub can list: written by the user (in another case) or by
\* someone else, draft or not, asking the user (in another case), a team or
\* nobody for review
ListedPRs ==
  [id : OpenPRs, author : {"ME", "other"}, draft : BOOLEAN,
   requestedReviewers : {<<>>, <<"other", "me">>},
   requestedTeams : {<<>>, <<"core">>}]

FilterConfigs ==
  [username : {"Me"}, userTeams : {<<>>, <<"docs", "core">>}, showAllPRs : BOOLEAN]

InitFilter ==
  /\ InitBase
  /\ logging = FALSE
  /\ lastCall \in {[op |-> "listed", prs |-> prs, config |-> config] :
                     prs \in TextsOver(ListedPRs, MaxSnapshot),
                     config \in FilterConfigs}

\* the filter called as asked, and as runPoll calls it twice
FilterCall ==
  /\ lastCall.op = "listed"
  /\ lastCall' =
       [op |-> "filterPRsForReview", prs |-> lastCall.prs,
        config |-> lastCall.config,
        ret |-> filterPRsForReview(lastCall.prs, lastCall.config),
        allOthersPRs |->
          filterPRsForReview(lastCall.prs,
                             [lastCall.config EXCEPT !.showAllPRs = TRUE]),
        myReviewPRs |->
          filterPRsForReview(lastCall.prs,
                             [lastCall.config EXCEPT !.showAllPRs = FALSE])]
  /\ UNCHANGED <<reviewStates, prStates, now, orchVars, lastSync, poller>>

NextFilter == FilterCall

SpecFilter == InitFilter /\ [][NextFilter]_vars

\* ------------------------------------------------------------- properties
Terminal == {"completed", "failed", "cancelled"}

\* every callback of the run of client c has run: executeReview has returned
\* or rethrown, and its process (if any) has closed
RunOver(c) == pc[c] = "done" /\ proc[c] \in {"none", "closed"}

\* C1: a run that a cancel request aborted, storing cancelled, leaves the
\* ReviewState cancelled once all of its callbacks have run, unless a newer
\* review of the PR has been started.
C1_CancelNotMisreported ==
  \A c \in Clients :
    (cancelStored[c] /\ RunOver(c) /\ lastStart[runPr[c]] = runNo[c])
      => reviewStates[runPr[c]].status = "cancelled"

\* C2: no PR ever has two spawned processes that have not closed.
C2_OneProcessPerPR ==
  \A prId \in PRIds :
    Cardinality({c \in Clients : runPr[c] = prId /\ proc[c] = "running"}) <= 1

\* C3: a call of updateReviewStage, setReviewCompleted, setReviewFailed,
\* setReviewCancelled or setInlineComments for an id without a ReviewState
\* leaves the store as it was, and a call of the first four for an entry
\* whose status is not in_progress leaves that entry as it was.
C3_StoreOpsNoOp ==
  [][\A prId \in OpenPRs :
       LET guarded == \/ \E stage \in Stages : UpdateReviewStageCall(prId, stage)
                      \/ SetReviewCompletedCall(prId, 1)
                      \/ SetReviewFailedCall(prId, MsgExit)
                      \/ SetReviewCancelledCall(prId)
           inline == \E comments \in CommentLists : SetInlineCommentsCall(prId, comments)
       IN /\ (prId \notin DOMAIN reviewStates /\ (guarded \/ inline))
               => reviewStates' = reviewStates
          /\ (prId \in DOMAIN reviewStates /\ guarded
              /\ reviewStates[prId].status # "in_progress")
               => (prId \in DOMAIN reviewStates'
                   /\ reviewStates'[prId] = reviewStates[prId])]_vars

\* C4: while a run that was started on a cancelled run is in flight and its
\* ReviewState is in_progress, no step of the cancelled run takes the
\* ReviewState out of in_progress.
C4_SupersededRunIgnored ==
  [][\A new \in Clients, old \in Clients :
       ( /\ supersedes[new] /\ pc[new] # "done"
         /\ cancelStored[old] /\ runPr[old] = runPr[new] /\ runNo[old] < runNo[new]
         /\ StatusOf(reviewStates, runPr[new]) = "in_progress"
         /\ pc'[old] # pc[old] )
       => StatusOf(reviewStates', runPr[new]) = "in_progress"]_vars

\* C5: a cancel request changes the ReviewState only if it is in_progress,
\* and then to cancelled with setReviewCancelled returning true; with no
\* review of the PR in flight it is refused, signals no process and leaves
\* the stores and the executor's maps as they were.
C5_CancelIdleChangesNothing ==
  [][\A prId \in OpenPRs :
       handleCancelReview(prId) =>
         /\ StatusOf(reviewStates, prId) # "in_progress"
              => (reviewStates' = reviewStates /\ ~lastCancel'.stored)
         /\ reviewStates' # reviewStates
              => /\ lastCancel'.stored
                 /\ reviewStates' = [reviewStates EXCEPT
                                       ![prId].status = "cancelled",
                                       ![prId].completedAt = now]
         /\ ~InFlight(prId)
              => /\ ~lastCancel'.cancelled
                 /\ UNCHANGED <<reviewStates, prStates, sigs, killTimers,
                                runningProcesses, activeReviews, aborted>>]_vars

\* a refused cancel request that found a terminal ReviewState and no run
C5_Witness ==
  /\ lastCancel.prId = "pr1" /\ ~lastCancel.cancelled
  /\ lastCancel.was \in Terminal /\ ~lastCancel.inFlight

EndsWithError(c, message) ==
  \/ FetchPRDiffRejects(c) /\ message = MsgFetch
  \/ DetectNotInstalled(c) /\ message = MsgNotInstalled
  \/ /\ \E exitCode \in ExitCodes :
          ProcClose(c, exitCode) /\ CloseSettlement(c, exitCode) = message
     /\ settled[c] = "pending"
     /\ message \in {MsgTimeout, MsgExit}
  \/ ProcError(c, "spawn") /\ message = MsgSpawn

\* C13: when a review run ends with an error other than a cancellation, the
\* ReviewState of its PR becomes failed with the error's message, and no
\* error leaves handleStartReview (which awaits executeReview without a
\* catch, so whatever executeReview rethrows reaches the HTTP layer).
C13_ErrorsBecomeFailed ==
  [][\A c \in Clients :
       \A message \in {MsgFetch, MsgNotInstalled, MsgTimeout, MsgExit, MsgSpawn} :
         EndsWithError(c, message) =>
           /\ StatusOf(reviewStates', runPr[c]) = "failed"
           /\ reviewStates'[runPr[c]].error = message
           /\ thrown'[c] = Undefined]_vars

\* C14: a cancel request leaves the PR store as it was, and no step of a run
\* whose controller a cancel request aborted changes the PR store, reaches
\* the code after setReviewCompleted or leaves a completed ReviewState that
\* holds the run's result.
C14_CancelledNeverReviewed ==
  [][/\ \A prId \in OpenPRs : handleCancelReview(prId) => prStates' = prStates
     /\ \A c \in Clients :
          ( /\ aborted[c] /\ runNo'[c] = runNo[c]
            /\ pc'[c] # pc[c] \/ proc'[c] # proc[c] )
          => /\ prStates' = prStates
             /\ pc'[c] # "fetchPRFiles"
             /\ ~ ( /\ StatusOf(reviewStates', runPr[c]) = "completed"
                    /\ reviewStates'[runPr[c]].result = runNo[c] )]_vars

\* a cancelled run whose process went on to exit with code 0: executeOpenCode
\* resolved, the run threw 'Review cancelled' and the PR is still reviewing
C14_Witness ==
  \E c \in Clients :
    /\ aborted[c] /\ pc[c] = "done"
    /\ settled[c] = "resolved" /\ thrown[c] = MsgCancelled
    /\ PRGet(prStates, runPr[c]).status = "reviewing"
    /\ StatusOf(reviewStates, runPr[c]) = "cancelled"

\* C27: a run whose controller has been aborted starts no later phase: its
\* next step ends it with an error thrown, without moving the stage of the
\* ReviewState, without spawning a process if none was spawned, and without
\* parsing the output or returning a ReviewResult.
C27_AbortStopsPhases ==
  [][\A c \in Clients :
       ( aborted[c] /\ runNo'[c] = runNo[c] /\ pc'[c] # pc[c] )
       => /\ pc'[c] = "done"
          /\ thrown'[c] # Undefined
          /\ proc[c] = "none" => proc'[c] = "none"
          /\ Existing(reviewStates', runPr[c]).stage
               = Existing(reviewStates, runPr[c]).stage
          /\ Existing(reviewStates', runPr[c]).result
               = Existing(reviewStates, runPr[c]).result]_vars

\* one run was aborted during the installation check and ended without a
\* process; another was aborted while its process ran, the process exited
\* with code 0, and the run threw 'Review cancelled' at stage generating
C27_Witness ==
  \E c \in Clients, d \in Clients :
    /\ aborted[c] /\ pc[c] = "done" /\ proc[c] = "none"
    /\ thrown[c] = MsgCancelled
    /\ aborted[d] /\ pc[d] = "done" /\ settled[d] = "resolved"
    /\ thrown[d] = MsgCancelled
    /\ reviewStates[runPr[d]].stage = "generating"
    /\ reviewStates[runPr[d]].result = NoValue

\* C28: the promise of executeOpenCode is resolved only by a close event
\* with exit code 0 for a process whose timeout has not fired; after a close
\* event with exit code 1 or without exit code the promise is rejected; and
\* a settled promise keeps its settlement, whatever events follow.
C28_ResolvesOnCleanExitOnly ==
  [][\A c \in Clients :
       /\ ( settled'[c] = "resolved" /\ settled[c] # "resolved" )
          => /\ ProcClose(c, 0)
             /\ settled[c] = "pending"
             /\ ~killed[c] /\ timer[c] # "fired"
       /\ \A exitCode \in ExitCodes \ {0} :
            ProcClose(c, exitCode) => settled'[c] \notin {"pending", "resolved"}
       /\ ( settled[c] # "pending" /\ runNo'[c] = runNo[c] )
          => settled'[c] = settled[c]]_vars

\* one process failed to spawn: its error event rejected the promise and its
\* close event followed; another closed with exit code 0 and resolved
C28_Witness ==
  \E c \in Clients, d \in Clients :
    /\ proc[c] = "closed" /\ settled[c] = MsgSpawn
    /\ proc[d] = "closed" /\ settled[d] = "resolved" /\ ~killed[d]

\* C15: an abortExecution(prId) call that finds a running process of prId which
\* was never signalled returns true, sends SIGTERM to a process of prId and
\* schedules its SIGKILL; a call that finds no process of prId returns false
\* and changes nothing; and after any call prId is not registered, so that
\* the next call returns false.
C15_AbortIdempotent ==
  lastCall.op = "abortExecution" =>
    /\ lastCall.fresh => (lastCall.ret /\ lastCall.signalled)
    /\ lastCall.none => (~lastCall.ret /\ ~lastCall.changed)
    /\ ~lastCall.registered

\* C16: cancelReview(prId) returns true exactly when a review run of prId that
\* has not been cancelled is inside reviewPullRequest at the time of the
\* call, and right after the call another cancelReview(prId) would return
\* false.
C16_CancelReturnsRegistered ==
  lastCancel.prId # Undefined =>
    /\ lastCancel.cancelled <=> lastCancel.registered
    /\ ~lastCancel.again

\* C32: a cancel request for a PR whose ReviewState is in_progress is
\* accepted: cancelReview returns true and setReviewCancelled stores
\* cancelled.
C32_InProgressCancellable ==
  (lastCancel.prId # Undefined /\ lastCancel.was = "in_progress") =>
    (lastCancel.cancelled /\ lastCancel.stored)

\* C33: a ReviewState that is completed keeps its status and its result in
\* every step that is not a new handleStartReview for the PR.
C33_CompletedStaysCompleted ==
  [][\A prId \in OpenPRs :
       ( /\ StatusOf(reviewStates, prId) = "completed"
         /\ lastStart'[prId] = lastStart[prId] )
       => /\ StatusOf(reviewStates', prId) = "completed"
          /\ reviewStates'[prId].result = reviewStates[prId].result]_vars

\* C34: a ReviewState holds a result only when it is completed and an error
\* only when it is failed, and one that is in_progress holds no result,
\* error, completedAt or inline comments.
C34_FieldsAgreeWithStatus ==
  \A prId \in DOMAIN reviewStates :
    LET s == reviewStates[prId] IN
    /\ s.result # NoValue => s.status = "completed"
    /\ s.error # Undefined => s.status = "failed"
    /\ s.status = "in_progress" =>
         /\ s.result = NoValue /\ s.error = Undefined
         /\ s.completedAt = NoValue /\ s.inlineComments = <<>>

\* C38: when some run of a PR has ended and no run of the PR is in flight,
\* neither activeReviews nor runningProcesses has an entry for the PR.
C38_NoBookkeepingLeak ==
  \A prId \in PRIds :
    ( (\E c \in Clients : runPr[c] = prId /\ pc[c] = "done") /\ ~InFlight(prId) )
    => (prId \notin DOMAIN activeReviews /\ prId \notin DOMAIN runningProcesses)

\* two runs of one PR have ended, one with a timeout and one cancelled while
\* its process ran, and both processes have closed
C38_Witness ==
  \E c \in Clients, d \in Clients :
    /\ runPr[c] = runPr[d] /\ pc[c] = "done" /\ pc[d] = "done"
    /\ settled[c] = MsgTimeout /\ proc[c] = "closed"
    /\ aborted[d] /\ thrown[d] = MsgCancelled /\ proc[d] = "closed"
    /\ runPr[c] \notin DOMAIN activeReviews
    /\ runPr[c] \notin DOMAIN runningProcesses

\* C25: the store holds one ReviewState per PR id, with one status; after
\* setReviewInProgress, whatever calls came before, the state of that id is
\* in_progress with the stage and progress of this call and the start time
\* it had, or the time of the call if it had none; the other ids keep theirs.
C25_OneStatePerId ==
  /\ DOMAIN reviewStates \subseteq PRIds
  /\ \A id \in DOMAIN reviewStates : reviewStates[id].status \in ReviewStatuses
  /\ lastCall.op = "setReviewInProgress" =>
       LET prId == lastCall.prId
           before == lastCall.before
           stage == IF lastCall.stage = Undefined THEN "starting" ELSE lastCall.stage
       IN /\ prId \in DOMAIN reviewStates
          /\ reviewStates[prId].status = "in_progress"
          /\ reviewStates[prId].stage = stage
          /\ reviewStates[prId].progress = STAGE_PROGRESS[stage]
          /\ reviewStates[prId].startedAt =
               IF prId \in DOMAIN before /\ before[prId].startedAt # NoValue
               THEN before[prId].startedAt ELSE lastCall.t
          /\ DOMAIN reviewStates = DOMAIN before \cup {prId}
          /\ \A id \in DOMAIN before \ {prId} : reviewStates[id] = before[id]

\* a second setReviewInProgress for an id that is in progress, while another
\* id has a state of its own
C25_Witness ==
  /\ lastCall.op = "setReviewInProgress"
  /\ lastCall.prId \in DOMAIN lastCall.before
  /\ lastCall.before[lastCall.prId].status = "in_progress"
  /\ lastCall.before[lastCall.prId].stage # reviewStates[lastCall.prId].stage
  /\ DOMAIN reviewStates # {lastCall.prId}

\* C26: while the ReviewState of a PR stays in_progress its progress never
\* decreases (so its stage never moves back along STAGE_PROGRESS), and the
\* progress is 100 exactly in a state that setReviewCompleted wrote.
C26_StageOnlyAdvances ==
  [][\A prId \in OpenPRs :
       /\ ( StatusOf(reviewStates, prId) = "in_progress"
            /\ StatusOf(reviewStates', prId) = "in_progress" )
          => /\ reviewStates'[prId].progress >= reviewStates[prId].progress
             /\ reviewStates'[prId].progress = STAGE_PROGRESS[reviewStates'[prId].stage]
       /\ prId \in DOMAIN reviewStates'
          => /\ reviewStates'[prId].status = "completed"
                  => reviewStates'[prId].progress = 100
             /\ reviewStates'[prId].progress = 100
                  => reviewStates'[prId].result # NoValue]_vars

\* ----------------------------------------------------- PR store properties
SeqSet(s) == {s[i] : i \in DOMAIN s}
SnapshotIds(prs) == {prs[i].id : i \in DOMAIN prs}
SnapshotPR(prs, prId) == prs[CHOOSE i \in DOMAIN prs : prs[i].id = prId]

\* C8: right after syncPRs the store holds exactly the ids of the snapshot,
\* one PRState each; added lists once each id of the snapshot that was
\* absent, removed lists once each id that was present and is not in the
\* snapshot; added, removed and the updated ids are pairwise disjoint and
\* cover the ids before and in the snapshot.
C8_SyncDelta ==
  lastSync.called =>
    LET before == PRKeys(lastSync.before)
        snapshot == SnapshotIds(lastSync.prs)
        added == SeqSet(lastSync.added)
        removed == SeqSet(lastSync.removed)
        updated == before \cap snapshot
    IN /\ PRKeys(prStates) = snapshot
       /\ Len(prStates) = Cardinality(snapshot)
       /\ added = snapshot \ before
       /\ Len(lastSync.added) = Cardinality(added)
       /\ removed = before \ snapshot
       /\ Len(lastSync.removed) = Cardinality(removed)
       /\ added \cap removed = {} /\ added \cap updated = {} /\ removed \cap updated = {}
       /\ added \cup removed \cup updated = before \cup snapshot

\* a sync that added a PR, removed a PR and updated a PR
C8_Witness ==
  /\ lastSync.called
  /\ lastSync.added # <<>> /\ lastSync.removed # <<>>
  /\ PRKeys(lastSync.before) \cap SnapshotIds(lastSync.prs) # {}

\* C9: a syncPRs call that repeats the call right before it returns empty
\* added and removed and leaves the store as the first call left it.
C9_SyncIdempotent ==
  lastSync.repeat =>
    /\ lastSync.added = <<>>
    /\ lastSync.removed = <<>>
    /\ prStates = lastSync.before

\* a repeated sync of a snapshot of two PRs, one of them awaiting my review
C9_Witness ==
  /\ lastSync.repeat
  /\ Len(prStates) >= 2
  /\ \E i \in DOMAIN prStates : prStates[i].needsMyReview

\* C10: right after syncPRs every PRState holds the PullRequest of the
\* snapshot and needsMyReview tells whether its id is in myReviewPRIds; a PR
\* that was in the store keeps its status, seenAt, reviewStartedAt and
\* reviewCompletedAt, and a PR that was not has status new and none of them.
C10_ResyncPreservesLifecycle ==
  lastSync.called =>
    \A i \in DOMAIN prStates :
      LET state == prStates[i]
          prId == state.pr.id
          lifecycle(st) == <<st.status, st.seenAt, st.reviewStartedAt,
                             st.reviewCompletedAt>>
      IN /\ state.pr = SnapshotPR(lastSync.prs, prId)
         /\ state.needsMyReview = (prId \in lastSync.my)
         /\ IF PRHas(lastSync.before, prId)
            THEN lifecycle(state) = lifecycle(PRGet(lastSync.before, prId))
            ELSE lifecycle(state) = <<"new", NoValue, NoValue, NoValue>>

\* a sync that changed the PullRequest and needsMyReview of a PR whose
\* review had started, and added another PR
C10_Witness ==
  /\ lastSync.called
  /\ lastSync.added # <<>>
  /\ \E i \in DOMAIN prStates :
       LET state == prStates[i] IN
       /\ PRHas(lastSync.before, state.pr.id)
       /\ state.status = "reviewing" /\ state.reviewStartedAt # NoValue
       /\ PRGet(lastSync.before, state.pr.id).pr # state.pr
       /\ PRGet(lastSync.before, state.pr.id).needsMyReview # state.needsMyReview

\* C11: right after updatePRStatus(prId, status) on a stored PR its status is
\* status, each of seenAt, reviewStartedAt, reviewCompletedAt that was set is
\* as it was, the one that was unset and belongs to status is the time of the
\* call, the others stay unset, every other PRState is as it was and the
\* listener was notified once; for a prId not in the store nothing changed and
\* no listener was notified.
C11_UpdateStatusStampsOnce ==
  lastCall.op = "updatePRStatus" =>
    LET before == lastCall.before
        prId == lastCall.prId
        stamp(old, status) == IF old # NoValue THEN old
                              ELSE IF lastCall.status = status THEN lastCall.t
                              ELSE NoValue
    IN IF ~PRHas(before, prId)
       THEN prStates = before /\ lastCall.notified = <<>>
       ELSE LET old == PRGet(before, prId)
                new == PRGet(prStates, prId)
            IN /\ PRKeySeq(prStates) = PRKeySeq(before)
               /\ \A i \in DOMAIN prStates :
                    prStates[i].pr.id # prId => prStates[i] = before[i]
               /\ new.status = lastCall.status
               /\ new.pr = old.pr /\ new.needsMyReview = old.needsMyReview
               /\ new.seenAt = stamp(old.seenAt, "seen")
               /\ new.reviewStartedAt = stamp(old.reviewStartedAt, "reviewing")
               /\ new.reviewCompletedAt = stamp(old.reviewCompletedAt, "reviewed")
               /\ lastCall.notified = <<[prId |-> prId, state |-> new]>>

\* a later call that sets status seen on a PR whose seenAt is already set
C11_Witness ==
  /\ lastCall.op = "updatePRStatus"
  /\ PRHas(lastCall.before, lastCall.prId)
  /\ lastCall.status = "seen"
  /\ PRGet(lastCall.before, lastCall.prId).seenAt \notin {NoValue, lastCall.t}

\* C12: the new PRs a successful poll hands to the callback are exactly the
\* PRs that syncPRs reported as added by that poll.
C12_CallbackGetsAdded ==
  (lastCall.op = "runPoll" /\ lastCall.called) =>
    {lastCall.newPRs[i].id : i \in DOMAIN lastCall.newPRs} = SeqSet(lastCall.added)

\* C31: a poll whose fetch fails returns the empty list and does not call the
\* callback; it leaves the PR store, the last poll time, the poll count, the
\* callback and the interval timer as they were, so that a scheduler that is
\* running still has its timer armed.
C31_FailedPollHarmless ==
  [][(lastCall' # lastCall /\ lastCall'.op = "runPoll failed") =>
       /\ lastCall'.ret = <<>>
       /\ ~lastCall'.called
       /\ lastCall'.states = prStates /\ lastCall'.before = poller
       /\ prStates' = prStates
       /\ poller'.lastPollTime = poller.lastPollTime
       /\ poller'.pollCount = poller.pollCount
       /\ poller'.pollCallback = poller.pollCallback
       /\ poller'.intervalId = poller.intervalId
       /\ poller'.isRunning = poller.isRunning
       /\ poller'.timers = poller.timers
       /\ poller'.isRunning => poller'.intervalId \in poller'.timers]_vars

\* a poll failed after an earlier poll had filled the store, while the
\* scheduler is running and another poll is already in flight
C31_Witness ==
  /\ lastCall.op = "runPoll failed"
  /\ prStates # <<>> /\ poller.pollCount > 0
  /\ poller.isRunning /\ poller.intervalId \in poller.timers
  /\ poller.inFlight > 0

\* C35: once stopPolling has returned after a startPolling, and until the
\* next startPolling, no poll syncs the PR store or calls the callback.
C35_StopEffectiveImmediately ==
  [][(~poller.isRunning /\ poller.pollCallback # "null") =>
       /\ poller'.pollCount = poller.pollCount
       /\ prStates' # prStates => \E prId \in PRIds : MarkSeen(prId)]_vars

\* C36: at most one runPoll is between its fetch and its sync at any time.
C36_PollsDoNotOverlap == poller.inFlight <= 1

\* C37: there is at most one interval timer, which exists exactly while
\* polling is running and is the one intervalId names; a startPolling call
\* that finds polling running changes nothing, and one that finds it
\* stopped changes the scheduler.
C37_OnePollingTimer ==
  /\ Cardinality(poller.timers) <= 1
  /\ poller.isRunning => poller.timers = {poller.intervalId}
  /\ ~poller.isRunning => (poller.timers = {} /\ poller.intervalId = NoValue)
  /\ lastCall.op = "startPolling" => (lastCall.changed <=> ~lastCall.was)

\* polling was started, stopped and started again with another callback:
\* one timer, which is not the first one, and the new callback
C37_Witness ==
  /\ lastCall.op = "startPolling" /\ lastCall.again /\ ~lastCall.was
  /\ poller.isRunning /\ poller.timers = {poller.intervalId}
  /\ poller.pollCallback = "other callback" /\ poller.pollCount > 0

\* ------------------------------------------------ response parser properties
NoStrategyParses(text) ==
  \A k \in 1..Len(Strategies(text)) : ~Parses(Strategies(text)[k])

\* C17: parseReviewResponse returns a review for every output and never
\* throws; when no strategy finds JSON that parses, the review is the
\* fallback: verdict comment, no issues, the canned summary, and one
\* suggestion with the first 500 characters of the parsed text.
C17_ExtractorNeverRaises ==
  lastCall.op = "parseReviewResponse" =>
    LET ret == lastCall.ret
        text == contentToParse(lastCall.output)
    IN /\ ret.t = "review"
       /\ NoStrategyParses(text) =>
            /\ ret.verdict = "comment"
            /\ ret.issues = <<>>
            /\ ret.summary = <<"Review completed. See raw output for details.">>
            /\ Len(ret.suggestions) = 1
            /\ ret.suggestions[1].message = slice(text, PreviewChars)

\* whether the verdict text of a parsed object holds the word in any case
VerdictHas(data, word) ==
  LET text == String(Get(data, "verdict"))
  IN /\ ~Throws(text)
     /\ \E i \in 1..Len(text.s) : LowerPiece(text.s[i]) = word

\* C18: every parsed object gets a verdict, one of approve, request_changes
\* and comment: approve when the verdict text holds "approve" in any case,
\* else request_changes when it holds "request" or "change", else comment,
\* also when the object has no verdict.
C18_VerdictNormalized ==
  lastCall.op = "validateAndNormalizeReview" =>
    LET data == lastCall.data
        ret == lastCall.ret
    IN /\ ret.t = "review"
       /\ ret.verdict \in {"approve", "request_changes", "comment"}
       /\ ret.verdict =
            IF VerdictHas(data, "approve") THEN "approve"
            ELSE IF VerdictHas(data, "request") \/ VerdictHas(data, "change")
              THEN "request_changes"
            ELSE "comment"

\* the candidates in the documented order: json-tagged fenced block, first
\* fenced block, whole document, object anchored on a summary key, first
\* brace-balanced object
Documented(output) ==
  [json |-> JsonBlock(output), fenced |-> CodeBlock(output), whole |-> Whole(output),
   summary |-> SummaryMatch(output), balanced |-> extractBalancedJson(output)]

DocumentedOrder == <<"json", "fenced", "whole", "summary", "balanced">>

\* C29: extractJson returns the parse of the candidate of the earliest
\* strategy, in the documented order, whose candidate exists and parses as
\* JSON, and null when no strategy has such a candidate.
C29_FirstStrategyWins ==
  lastCall.op = "extractJson" =>
    LET cand == Documented(lastCall.output) IN
    /\ \A k \in 1..5 :
         ( /\ Parses(cand[DocumentedOrder[k]])
           /\ \A j \in 1..(k - 1) : ~Parses(cand[DocumentedOrder[j]]) )
         => lastCall.ret = JSONParse(cand[DocumentedOrder[k]].text)
    /\ (\A k \in 1..5 : ~Parses(cand[DocumentedOrder[k]])) => lastCall.ret = JSNull

\* the json-tagged block exists and does not parse, the untagged block
\* before it parses and its value, which is not null, is returned
C29_Witness ==
  /\ lastCall.op = "extractJson"
  /\ LET cand == Documented(lastCall.output) IN
     /\ cand.json.found /\ ~Parses(cand.json)
     /\ Parses(cand.fenced) /\ lastCall.ret = JSONParse(cand.fenced.text)
     /\ lastCall.ret # JSNull

\* ------------------------------------------- error classifier properties
\* the kinds in their priority order, each with what it looks for in the
\* lower-cased combined output
Kinds == <<"API_KEY_MISSING", "RATE_LIMITED", "MODEL_NOT_FOUND", "CONTEXT_TOO_LONG",
           "NETWORK_ERROR">>

Matches(kind, text) ==
  CASE kind = "API_KEY_MISSING" -> \E w \in {"api key", "unauthorized", "401"} : includes(text, w)
    [] kind = "RATE_LIMITED" -> \E w \in {"rate limit", "429", "too many"} : includes(text, w)
    [] kind = "MODEL_NOT_FOUND" ->
         includes(text, "model") /\ \E w \in {"not found", "invalid"} : includes(text, w)
    [] kind = "CONTEXT_TOO_LONG" ->
         \E w \in {"context", "too long", "token limit"} : includes(text, w)
    [] kind = "NETWORK_ERROR" ->
         \E w \in {"network", "econnrefused", "econnreset", "timeout"} : includes(text, w)

\* the characters of a text, each as <<piece index, piece, position in it>>
CharsOf(s) == UNION {{<<i, s[i], k>> : k \in 1..Width(s[i])} : i \in 1..Len(s)}

\* how many characters of s follow the character c
After(s, c) == Chars(SubSeq(s, c[1] + 1, Len(s))) + (Width(c[2]) - c[3])

\* the last n characters of s
LastChars(s, n) == {c \in CharsOf(s) : After(s, c) < n}

\* the characters a slice of s holds
Held(s, sl) ==
  {c \in CharsOf(s) :
     \/ c[1] <= Len(sl.whole)
     \/ sl.cut # <<>> /\ c[1] = Len(sl.whole) + 1 /\ c[3] <= sl.cut[2]}

\* C30: parseOpenCodeError returns the first kind, in the order auth/API-key,
\* rate-limit, model-not-found, context-too-long, network, that the
\* lower-cased combined stdout and stderr match; it returns Unknown only
\* when none matches, then with the exit code and the last 500 characters of
\* stderr, or of stdout when stderr is empty; it never returns Timeout.
C30_FailureClassification ==
  lastCall.op = "parseOpenCodeError" =>
    LET combined == toLowerCase(Combined(lastCall.stdout, lastCall.stderr))
        hits == {k \in 1..Len(Kinds) : Matches(Kinds[k], combined)}
        source == IF lastCall.stderr # <<>> THEN lastCall.stderr ELSE lastCall.stdout
    IN /\ lastCall.ret.type # "TIMEOUT"
       /\ hits # {} => lastCall.ret.type = Kinds[CHOOSE k \in hits : \A j \in hits : k <= j]
       /\ hits = {} =>
            /\ lastCall.ret.type = "UNKNOWN"
            /\ lastCall.ret.exitCode = lastCall.exitCode
            /\ Held(source, lastCall.ret.details) = LastChars(source, PreviewChars)

\* -------------------------------------------------- diff parser properties
\* what line i of a patch is in a unified diff: the lines before the first
\* hunk header are file headers, the others are told by their first character
KindOf(patch, i) ==
  IF \A j \in 1..i : patch[j][1] # "@" THEN "file"
  ELSE CASE patch[i][1] = "@" -> "hunk"
         [] patch[i][1] = "+" -> "add"
         [] patch[i][1] = "-" -> "delete"
         [] patch[i][1] = " " -> "context"
         [] OTHER -> "marker"

\* the counter before line i: the +c of the last hunk header before it plus
\* the added and context lines between the two
CounterAt(patch, i) ==
  LET headers == {j \in 1..(i - 1) : KindOf(patch, j) = "hunk"}
      last == IF headers = {} THEN 0
              ELSE CHOOSE j \in headers : \A h \in headers : h <= j
      start == IF last = 0 THEN 0 ELSE parseInt(patch[last][8])
  IN start + Cardinality({j \in (last + 1)..(i - 1) :
                            KindOf(patch, j) \in {"add", "context"}})

NumberOf(patch, i) ==
  IF KindOf(patch, i) = "hunk" THEN parseInt(patch[i][8]) ELSE CounterAt(patch, i)

Emitted(patch) ==
  LET at == SelectSeq([i \in 1..Len(patch) |-> i],
                      LAMBDA i : KindOf(patch, i) \notin {"file", "marker"})
  IN [k \in 1..Len(at) |->
        [lineNumber |-> NumberOf(patch, at[k]), type |-> KindOf(patch, at[k])]]

\* C19: parseDiffPatch emits an entry for every hunk header, added, context
\* and deleted line and for no other line; a hunk header carries its +c
\* start, the other entries carry the +c start of their hunk plus the number
\* of added and context lines before them in the hunk; getValidLineNumbers
\* is the sequence of the numbers of the added and context entries.
C19_DiffLineNumbering ==
  lastCall.op = "parseDiffPatch" =>
    /\ lastCall.ret = Emitted(lastCall.patch)
    /\ lastCall.valid =
         LineNumbersOf(SelectSeq(Emitted(lastCall.patch),
                                 LAMBDA l : l.type \in {"add", "context"}))

\* C20: findClosestLineBefore returns the greatest element of validLines
\* that is at most line, and null exactly when there is none.
C20_ClosestLineBefore ==
  lastCall.op = "findClosestLineBefore" =>
    LET line == lastCall.line
        validLines == lastCall.validLines
        atMost == {validLines[i] : i \in 1..Len(validLines)} \cap 0..line
    IN /\ lastCall.ret = JSNull <=> atMost = {}
       /\ lastCall.ret # JSNull =>
            /\ lastCall.ret.n \in atMost
            /\ \A l \in atMost : l <= lastCall.ret.n

\* a call that had to choose between two lines, the later one smaller
C20_Witness ==
  /\ lastCall.op = "findClosestLineBefore"
  /\ Len(lastCall.validLines) = 3
  /\ lastCall.validLines[1] < lastCall.validLines[2]
  /\ lastCall.validLines[2] <= lastCall.line
  /\ lastCall.validLines[3] > lastCall.line
  /\ lastCall.ret = Num(lastCall.validLines[2])

\* C21: validateLine answers a valid line with itself and no warning; a
\* line that is not valid with the greatest valid line before it and a
\* warning; and with an invalid result that keeps the requested line and
\* warns when there is no such line.  A valid result names a valid line not
\* after the requested one, and validating that line again changes nothing.
C21_ValidateLinePolicy ==
  lastCall.op = "validateLine" =>
    LET line == lastCall.line
        ret == lastCall.ret
        valid == SeqSet(getValidLineNumbers(lastCall.patch))
        before == {l \in valid : l <= line}
        again == validateLine(ret.actualLine, lastCall.patch)
    IN /\ ret.requestedLine = line
       /\ line \in valid =>
            ret.isValid /\ ret.actualLine = line /\ ret.warning = "none"
       /\ line \notin valid /\ before # {} =>
            /\ ret.isValid /\ ret.warning # "none"
            /\ ret.actualLine \in before
            /\ \A l \in before : l <= ret.actualLine
       /\ before = {} =>
            ~ret.isValid /\ ret.warning # "none" /\ ret.actualLine = line
       /\ ret.isValid =>
            /\ ret.actualLine \in valid /\ ret.actualLine <= line
            /\ again.isValid /\ again.actualLine = ret.actualLine
            /\ again.warning = "none"

\* a line between two hunks is answered with the last line of the first
C21_Witness ==
  /\ lastCall.op = "validateLine"
  /\ lastCall.ret.isValid
  /\ lastCall.ret.actualLine < lastCall.line
  /\ \E l \in SeqSet(getValidLineNumbers(lastCall.patch)) : l > lastCall.line

\* ------------------------------------------- inline comment preparer properties
\* the annotations are those of the issues at the given positions, in order
AnnotatesExactly(ret, issues, at) ==
  /\ Len(ret) = Len(at)
  /\ \A k \in 1..Len(ret) :
       /\ ret[k].issue = issues[at[k]]
       /\ ret[k].issueIndex = at[k] - 1
       /\ ret[k].selected = ret[k].isValid

\* C22 as stated: one annotation for each issue that names a file, in the
\* order of the issues, with the issue's position as issueIndex and selected
\* equal to isValid.
C22_OnePerIssueWithFile ==
  lastCall.op = "prepareInlineComments" =>
    AnnotatesExactly(lastCall.ret, lastCall.issues,
                     SelectSeq([i \in 1..Len(lastCall.issues) |-> i],
                               LAMBDA i : lastCall.issues[i].file # ""))

\* C22, amended: one annotation for each issue that names a file and a line,
\* and none for the other issues, in the order of the issues, with the
\* issue's position as issueIndex and selected equal to isValid.
C22_OnePerIssueWithFileAndLine ==
  lastCall.op = "prepareInlineComments" =>
    AnnotatesExactly(lastCall.ret, lastCall.issues,
                     SelectSeq([i \in 1..Len(lastCall.issues) |-> i],
                               LAMBDA i : /\ lastCall.issues[i].file # ""
                                          /\ lastCall.issues[i].line # 0))

\* an issue with a file and no line, followed by one that is annotated
C22_Witness ==
  /\ lastCall.op = "prepareInlineComments"
  /\ Len(lastCall.issues) = 2
  /\ lastCall.issues[1].file # "" /\ lastCall.issues[1].line = 0
  /\ Len(lastCall.ret) = 1
  /\ lastCall.ret[1].isValid /\ lastCall.ret[1].issueIndex = 1

\* ------------------------------------------------------ review poster properties
\* the comments of a request
CommentsOf(request) ==
  IF request.comments.given THEN request.comments.value ELSE <<>>

\* C23: the inline comments of a posted review are the stored annotations
\* that are valid and at a selected position, in order, each at its file and
\* actualLine, a valid line of the patch of that file; an annotation that is
\* not valid is never among them and, when selected, is added to the body.
C23_OnlyValidPostedInline ==
  lastCall.op = "handlePostReview" =>
    LET stored == lastCall.stored
        selected == IF lastCall.selectedIndices.given
                    THEN lastCall.selectedIndices.value ELSE {}
        comments == CommentsOf(lastCall.request)
        valid == SelectSeq([i \in 1..Len(stored) |-> i],
                           LAMBDA i : stored[i].isValid /\ (i - 1) \in selected)
        invalid == SelectSeq([i \in 1..Len(stored) |-> i],
                             LAMBDA i : ~stored[i].isValid /\ (i - 1) \in selected)
    IN /\ Len(comments) = Len(valid)
       /\ \A k \in 1..Len(comments) :
            /\ comments[k].path = stored[valid[k]].file
            /\ comments[k].line = stored[valid[k]].actualLine
            /\ comments[k].body = stored[valid[k]].issue
            /\ SeqIncludes(getValidLineNumbers(
                             fileMapGet(lastCall.files, comments[k].path).patch),
                           comments[k].line)
       /\ Len(lastCall.request.body.additional) = Len(invalid)
       /\ \A k \in 1..Len(invalid) :
            /\ lastCall.request.body.additional[k].file = stored[invalid[k]].file
            /\ lastCall.request.body.additional[k].requestedLine
                 = stored[invalid[k]].requestedLine

\* a post that selects a valid and an invalid annotation
C23_Witness ==
  /\ lastCall.op = "handlePostReview"
  /\ Len(lastCall.stored) = 2
  /\ ~lastCall.stored[1].isValid /\ lastCall.stored[2].isValid
  /\ lastCall.stored[2].actualLine < lastCall.stored[2].requestedLine
  /\ lastCall.selectedIndices = Given({0, 1})
  /\ Len(CommentsOf(lastCall.request)) = 1
  /\ Len(lastCall.request.body.additional) = 1

\* ------------------------------------------------------ review filter properties
\* whether two logins are the same but for case
SameLogin(a, b) == LowerLogin(a) = LowerLogin(b)

\* whether the PR asks the user or one of the user's teams for review
AsksFor(pr, config) ==
  \/ \E i \in 1..Len(pr.requestedReviewers) :
       SameLogin(pr.requestedReviewers[i], config.username)
  \/ SeqSet(pr.requestedTeams) \cap SeqSet(config.userTeams) # {}

Wanted(pr, config) ==
  /\ ~pr.draft
  /\ ~SameLogin(pr.author, config.username)
  /\ config.showAllPRs \/ AsksFor(pr, config)

\* C24: filterPRsForReview returns, in the order given, the PRs that are no
\* drafts, are not written by the user and, unless showAllPRs is set, ask
\* the user or one of the user's teams for review; the ids runPoll says
\* need the user's review are ids of the PRs it passes to syncPRs.
C24_FilterForReview ==
  lastCall.op = "filterPRsForReview" =>
    LET prs == lastCall.prs
        at == SelectSeq([i \in 1..Len(prs) |-> i],
                        LAMBDA i : Wanted(prs[i], lastCall.config))
    IN /\ lastCall.ret = [k \in 1..Len(at) |-> prs[at[k]]]
       /\ {lastCall.myReviewPRs[i].id : i \in 1..Len(lastCall.myReviewPRs)}
            \subseteq
          {lastCall.allOthersPRs[i].id : i \in 1..Len(lastCall.allOthersPRs)}

\* a list from which the user's own PR is dropped and a requested one kept
C24_Witness ==
  /\ lastCall.op = "filterPRsForReview"
  /\ ~lastCall.config.showAllPRs
  /\ Len(lastCall.prs) = 2
  /\ lastCall.prs[1].author = "ME" /\ ~lastCall.prs[1].draft
  /\ lastCall.prs[2].requestedTeams = <<"core">>
  /\ lastCall.prs[2].requestedReviewers = <<>>
  /\ lastCall.ret = <<lastCall.prs[2]>>

\* ----------------------------------------------------------- retry properties
\* C39: withRetry invokes fn at most maxRetries + 1 times; every error before
\* the last one was accepted by shouldRetry and followed by a wait of
\* min(baseDelayMs * 2^k, maxDelayMs) before retry k + 1; it returns the
\* result of the first invocation that resolves; it throws the error of the
\* last invocation, at once and without a wait when shouldRetry rejects it,
\* and otherwise only after maxRetries + 1 invocations.
C39_RetryBounded ==
  lastCall.op = "withRetry" =>
    LET opts == lastCall.opts
        errors == lastCall.errors
        slept == lastCall.slept
    IN /\ lastCall.invoked <= opts.maxRetries + 1
       /\ \A i \in 1..Len(errors) : errors[i].of = i
       /\ \A i \in 1..Len(slept) :
            /\ opts.shouldRetry => errors[i].kind \in {"429", "network"}
            /\ slept[i] = IF opts.baseDelayMs * 2^(i - 1) <= opts.maxDelayMs
                          THEN opts.baseDelayMs * 2^(i - 1) ELSE opts.maxDelayMs
       /\ lastCall.at = "fn" =>
            (Len(errors) = lastCall.invoked - 1 /\ Len(slept) = Len(errors))
       /\ lastCall.at = "sleep" =>
            (Len(errors) = lastCall.invoked /\ Len(slept) = Len(errors))
       /\ lastCall.at = "returned" =>
            /\ lastCall.ret = lastCall.invoked
            /\ Len(errors) = lastCall.invoked - 1 /\ Len(slept) = Len(errors)
       /\ lastCall.at = "threw" =>
            /\ Len(errors) = lastCall.invoked
            /\ lastCall.thrown = errors[Len(errors)]
            /\ Len(slept) = Len(errors) - 1
            /\ \/ opts.shouldRetry /\ lastCall.thrown.kind = "404"
               \/ lastCall.invoked = opts.maxRetries + 1

\* the third invocation failed with a retryable error after waits of 3 and
\* 5, the second one capped, and its error was thrown
C39_Witness ==
  /\ lastCall.op = "withRetry" /\ lastCall.at = "threw"
  /\ lastCall.opts.maxRetries = 2 /\ lastCall.opts.shouldRetry
  /\ lastCall.invoked = 3 /\ lastCall.slept = <<3, 5>>
  /\ lastCall.thrown = [kind |-> "network", of |-> 3]

\* ---------------------------------------------------------------- fairness
\* the OS reports the close of a process that was sent SIGKILL
KilledProcessCloses(c) == "SIGKILL" \in sigs[c] /\ ProcClose(c, NullExit)

\* a step the event loop owes client c: a timer that fires, a queued 'error'
\* event, the close of a killed process, or the return of an awaited
\* collaborator call (a GitHub request, the installation check)
ClientProgress(c) ==
  \/ TimeoutFires(c)
  \/ \E which \in {"timeout", "abort"} : KillTimerFires(c, which)
  \/ KilledProcessCloses(c)
  \/ \E message \in {"spawn", "SIGTERM"} : ProcError(c, message)
  \/ FetchPRDiffResolves(c) \/ FetchPRDiffRejects(c)
  \/ DetectNotInstalled(c) \/ DetectAborted(c)
  \/ \E spawned \in BOOLEAN : SpawnProcess(c, spawned)
  \/ FetchPRFilesRejects(c)
  \/ \E comments \in CommentLists : FetchPRFilesResolves(c, comments)

Fairness == \A c \in Clients : WF_vars(ClientProgress(c))

SpecLive == Init /\ [][Next]_vars /\ Fairness

====
